---- MODULE Spec2Model ----
(***************************************************************************)
(* The state-based blueprint engine (blueprint / makeCallable): a heap of  *)
(* constructed callables, each closing over one BlueprintState, the chain  *)
(* methods that derive new callables, and the invocation protocol.         *)
(* The addon-capable engine (blueprint / _blueprint): a heap of function   *)
(* objects, each with its closure's implementation cell and its own        *)
(* fields, and the React hook built on it.                                 *)
(***************************************************************************)
EXTENDS Integers, Sequences, FiniteSets, TLC

VARIABLES callables, derivation, lastOp, last, inflight,
          objects, attached, addonOp, ui

\* the addon-capable engine
addonVars == <<objects, attached, addonOp>>

vars == <<callables, derivation, lastOp, last, inflight, objects, attached, addonOp, ui>>

\* ------------------------------------------------------------------ bounds

\* How many callables one run constructs (the factory's base included).
MaxCallables == 3

\* How long a fluent chain grows (the base included).
MaxChain == 4

\* How many invocations overlap.
MaxInflight == 3

\* How many bundles are attached to one callable.
MaxAddons == 3

\* ------------------------------------------------------------------ values

Undef == [t |-> "undef"]

NaN == [t |-> "nan"]

Num(n) == [t |-> "num", n |-> n]

Obj(o) == [t |-> "obj", o |-> o]

EmptyObj == [k \in {} |-> Undef]

\* { ...a, ...b }
Spread(a, b) == [k \in (DOMAIN a) \cup (DOMAIN b) |-> IF k \in DOMAIN b THEN b[k] ELSE a[k]]

MkObj(r) == Spread(EmptyObj, r)

\* o[k] of a JavaScript object: undefined when the key is absent
Get(o, k) == IF k \in DOMAIN o THEN o[k] ELSE Undef

\* x + y on numbers, undefined and NaN
Add(x, y) == IF x.t = "num" /\ y.t = "num" THEN Num(x.n + y.n) ELSE NaN

\* x * y on numbers, undefined and NaN
Mul(x, y) == IF x.t = "num" /\ y.t = "num" THEN Num(x.n * y.n) ELSE NaN

\* A deferred value, by what it settles to; post: the stage events that run
\* before it settles.
Deferred(settle, v, post) == [t |-> "promise", settle |-> settle, v |-> v, post |-> post]

\* Promise.resolve(v)
PromiseResolve(v) == Deferred("resolved", v, <<>>)

\* result && typeof result.then === 'function'
IsPromise(v) == v.t = "promise"

Err(name, msg) == [t |-> "error", name |-> name, msg |-> msg]

\* A completion of a call: what it returned or threw, and the stage events
\* that ran before it returned.
Return(v, ev) == [kind |-> "return", v |-> v, ev |-> ev]

Throw(e, ev) == [kind |-> "throw", v |-> e, ev |-> ev]

\* p.then(f, f): the callback runs on a rejection as well
ThenEither(p, c) ==
    IF c.kind = "throw" THEN Deferred("rejected", c.v, p.post \o c.ev)
    ELSE IF IsPromise(c.v) THEN Deferred(c.v.settle, c.v.v, p.post \o c.ev \o c.v.post)
    ELSE Deferred("resolved", c.v, p.post \o c.ev)

\* p.then(f), c being the completion of f(p.v)
Then(p, c) ==
    IF p.settle = "rejected" THEN p
    ELSE IF c.kind = "throw" THEN Deferred("rejected", c.v, p.post \o c.ev)
    ELSE IF IsPromise(c.v) THEN Deferred(c.v.settle, c.v.v, p.post \o c.ev \o c.v.post)
    ELSE Deferred("resolved", c.v, p.post \o c.ev)

\* One stage event of an invocation of callable c.
Ev(c, s, f, arg, p, out) == [c |-> c, s |-> s, f |-> f, arg |-> arg, p |-> p, out |-> out]

\* ------------------------------------------- the functions callers pass in

\* core logic: input => input.a + input.b, and its async twin; input => input.a;
\* one that throws and one whose deferred result rejects
CoreLogics == {"sum", "sumAsync", "getA", "fail", "failAsync"}

\* the failure of the failing core logics
Boom == Err("Error", "boom")

\* what the core logic returns
ApplyCore(f, p) ==
    IF f = "sum" THEN Add(Get(p, "a"), Get(p, "b"))
    ELSE IF f = "getA" THEN Get(p, "a")
    ELSE IF f = "failAsync" THEN Deferred("rejected", Boom, <<>>)
    ELSE PromiseResolve(Add(Get(p, "a"), Get(p, "b")))

\* the call of the core logic: it returns, or throws
CallCore(f, p) ==
    IF f = "fail" THEN Throw(Boom, <<>>) ELSE Return(ApplyCore(f, p), <<>>)

\* functions of positional parameters, as from is handed: (x, y) => x - y,
\* (x, y) => y and (...args) => args.length
PositionalFns == {"sub", "second", "count"}

\* the j-th positional argument: undefined when fewer were passed
ArgAt(args, j) == IF j \in DOMAIN args THEN args[j] ELSE Undef

\* fn(...args)
ApplyFn(fn, args) ==
    IF fn = "sub"
    THEN IF ArgAt(args, 1).t = "num" /\ ArgAt(args, 2).t = "num"
         THEN Num(ArgAt(args, 1).n - ArgAt(args, 2).n) ELSE NaN
    ELSE IF fn = "second" THEN ArgAt(args, 2)
    ELSE Num(Len(args))

\* input transforms: p => ({...p, a: p.a + 1}) and p => ({...p, a: p.a * 2})
InputTransforms == {"incA", "dblA"}

\* one more input transform: p => ({a: p.a}), which drops every other key
OtherInputTransforms == {"onlyA"}

ApplyInput(t, p) ==
    IF t = "incA" THEN Spread(p, [a |-> Add(Get(p, "a"), Num(1))])
    ELSE IF t = "onlyA" THEN MkObj([a |-> Get(p, "a")])
    ELSE Spread(p, [a |-> Mul(Get(p, "a"), Num(2))])

\* an input transform that throws, and its failure
FailingInputTransforms == {"failI"}

MapBoom == Err("Error", "mapper")

\* an output transform that throws, and its failure
FailingOutputTransforms == {"failO"}

OutBoom == Err("Error", "output")

\* a default provider that throws, and its failure
FailingDefaultArgs == {"failD"}

ProviderBoom == Err("Error", "provider")

\* output transforms: r => r * 2 and (r, p) => r + p.a
OutputTransforms == {"dbl", "addA"}

ApplyOutput(t, r, p) ==
    IF t = "dbl" THEN Mul(r, Num(2)) ELSE Add(r, Get(p, "a"))

\* default providers: the static {b: 2} and the function p => ({b: p.a})
DefaultArgs == {"b2", "bFromA"}

\* one more function provider: p => ({a: p.b}), which reads the key the other
\* providers supply
OtherDefaultArgs == {"aFromB"}

\* p.a (p.b) of whatever the provider is handed (a record or a primitive)
ApplyProvider(d, cur) ==
    IF d = "b2" THEN MkObj([b |-> Num(2)])
    ELSE IF d = "aFromB" THEN MkObj([a |-> IF cur.t = "obj" THEN Get(cur.o, "b") ELSE Undef])
    ELSE MkObj([b |-> IF cur.t = "obj" THEN Get(cur.o, "a") ELSE Undef])

\* enforced values: {b: 100} and {a: 1, b: 50}
EnforceArgs == {"b100", "a1b50"}

EnforcedOf(e) ==
    IF e = "b100" THEN MkObj([b |-> Num(100)]) ELSE MkObj([a |-> Num(1), b |-> Num(50)])

BeforeEffects == {"logB"}

AfterEffects == {"logA"}

\* the failure of the failing hooks
HookBoom == Err("Error", "hook")

\* more before hooks: p => ({...p, b: 0}), which returns a changed copy of what
\* it is handed, and one that throws
OtherBeforeEffects == {"setB", "failB"}

\* hook(validatedProps): what the hook returns, or throws
CallBefore(e, vp) ==
    IF e = "failB" THEN Throw(HookBoom, <<>>)
    ELSE IF e = "setB" THEN Return(Obj(Spread(vp, [b |-> Num(0)])), <<>>)
    ELSE Return(Undef, <<>>)

\* more after hooks: (r, p) => r * 2, which returns a changed result, and one
\* that throws
OtherAfterEffects == {"dblR", "failA"}

\* hook(validatedResult, validatedProps): what the hook returns, or throws
CallAfter(e, r, vp) ==
    IF e = "failA" THEN Throw(HookBoom, <<>>)
    ELSE IF e = "dblR" THEN Return(Mul(r, Num(2)), <<>>)
    ELSE Return(Undef, <<>>)

\* input validator z.object({a: z.number()}): strips the keys it does not know
PropsSchemas == {"reqA"}

ParseProps(s, p) ==
    IF s = "reqAB"
    THEN IF p.t = "obj" /\ Get(p.o, "a").t = "num" /\ Get(p.o, "b").t = "num"
         THEN Return(Obj(MkObj([a |-> p.o["a"], b |-> p.o["b"]])), <<>>)
         ELSE Throw(Err("ZodError", "props a b"), <<>>)
    ELSE IF p.t = "obj" /\ Get(p.o, "a").t = "num"
    THEN Return(Obj(MkObj([a |-> p.o["a"]])), <<>>)
    ELSE Throw(Err("ZodError", "props"), <<>>)

\* result validator z.number()
ResultSchemas == {"num"}

\* a second validator for each axis: z.object({a: z.number(), b: z.number()})
\* and z.any()
OtherPropsSchemas == {"reqAB"}

OtherResultSchemas == {"any"}

ParseResult(s, r) ==
    IF s = "any" \/ r.t = "num" THEN Return(r, <<>>)
    ELSE Throw(Err("ZodError", "result"), <<>>)

\* plain functions passed to pipe: r => r + 1
NextFns == {"inc"}

ApplyNext(f, r) == Add(r, Num(1))

\* what callers invoke a callable with
Inputs ==
    { Undef, Num(7), Obj(EmptyObj), Obj(MkObj([a |-> Num(5)])),
      Obj(MkObj([a |-> Num(5), b |-> Num(10)])) }

\* ------------------------------------------------------- BlueprintState

\* an optional field: <<>> when undefined, <<v>> when set
None == <<>>

Some(v) == <<v>>

NoImplementation == [k |-> "none"]

CoreFn(f) == [k |-> "fn", f |-> f]

\* what blueprint() is called with: nothing, a bare implementation, options
FactoryArgs ==
    { [key |-> None, description |-> None, initialImplementation |-> NoImplementation],
      [key |-> None, description |-> None, initialImplementation |-> CoreFn("sum")],
      [key |-> Some("k"), description |-> Some("d"), initialImplementation |-> NoImplementation] }

initialState(parsedOptions) ==
    [ key |-> parsedOptions.key,
      description |-> parsedOptions.description,
      implementation |-> parsedOptions.initialImplementation,
      inputMappers |-> <<>>,
      outputMappers |-> <<>>,
      beforeHooks |-> <<>>,
      afterHooks |-> <<>>,
      defaultProviders |-> <<>>,
      enforcedValues |-> EmptyObj,
      isAsync |-> FALSE,
      isVoid |-> FALSE,
      propsSchema |-> None,
      validateProps |-> FALSE,
      resultSchema |-> None,
      validateResults |-> FALSE ]

\* a key is named in messages and carried through pipe only when truthy
Truthy(opt) == opt # None /\ opt[1] # ""

\* ------------------------------------------------------------ invocation

\* currentProps as the default providers see it
InitialProps(st, props) ==
    IF props.t = "obj" THEN props
    ELSE IF props.t = "undef" /\ Len(st.defaultProviders) > 0 THEN Obj(EmptyObj)
    ELSE props

RECURSIVE ResolveDefaultsSoFar(_, _)
\* default resolution handing each provider the input together with the
\* defaults resolved so far
ResolveDefaultsSoFar(providers, cur) ==
    IF providers = <<>> THEN EmptyObj
    ELSE LET soFar == ResolveDefaultsSoFar(SubSeq(providers, 1, Len(providers) - 1), cur)
             handed == IF cur.t = "obj" THEN Obj(Spread(soFar, cur.o)) ELSE cur
         IN  Spread(soFar, ApplyProvider(providers[Len(providers)], handed))

RECURSIVE ResolveDefaults(_, _)
\* 1. the union of the providers' outputs, later providers overriding
ResolveDefaults(providers, cur) ==
    IF providers = <<>> THEN EmptyObj
    ELSE Spread(ResolveDefaults(SubSeq(providers, 1, Len(providers) - 1), cur),
                ApplyProvider(providers[Len(providers)], cur))

\* the caller's record, or the record a non-record input is coerced into
CallerRecord(props) ==
    IF props.t = "obj" THEN props.o
    ELSE IF props.t = "undef" THEN EmptyObj
    ELSE MkObj([props |-> props])

\* the resolved defaults merged over the caller input
ApplyDefaultsOver(resolvedDefaults, props) == Spread(CallerRecord(props), resolvedDefaults)

\* 1. caller input merged over the resolved defaults (the result is always a
\* record, so the code's last branch merges the defaults under it once more)
ApplyDefaults(resolvedDefaults, props) ==
    Spread(resolvedDefaults, Spread(resolvedDefaults, CallerRecord(props)))

\* the enforced values merged under the props
ApplyEnforcedUnder(currentProps, enforcedValues) == Spread(enforcedValues, currentProps)

\* 2. enforced values merged over the props
ApplyEnforced(currentProps, enforcedValues) == Spread(currentProps, enforcedValues)

\* props validation on the mapped props with the enforced values put back
ValidatedPropsEnforcedAgain(st, mappedProps) ==
    IF st.validateProps /\ st.propsSchema # None
    THEN ParseProps(st.propsSchema[1], Obj(Spread(mappedProps, st.enforcedValues)))
    ELSE Return(Obj(Spread(mappedProps, st.enforcedValues)), <<>>)

\* props validation whose catch does not rethrow: the mapped props go on
ValidatedPropsSwallowed(st, mappedProps) ==
    LET parsed == ParseProps(st.propsSchema[1], Obj(mappedProps))
    IN  IF st.validateProps /\ st.propsSchema # None /\ parsed.kind = "return"
        THEN parsed ELSE Return(Obj(mappedProps), <<>>)

\* 3.5 props validation: the parsed props, or the validator's error rethrown;
\* the mapped props as they are when validation is off
ValidatedProps(st, mappedProps) ==
    IF st.validateProps /\ st.propsSchema # None
    THEN ParseProps(st.propsSchema[1], Obj(mappedProps))
    ELSE Return(Obj(mappedProps), <<>>)

\* result validation whose catch does not rethrow: the mapped result goes on
ValidatedResultSwallowed(st, currentResult) ==
    LET parsed == ParseResult(st.resultSchema[1], currentResult)
    IN  IF st.validateResults /\ st.resultSchema # None /\ parsed.kind = "return"
        THEN parsed ELSE Return(currentResult, <<>>)

\* 7.5 result validation, likewise
ValidatedResult(st, currentResult) ==
    IF st.validateResults /\ st.resultSchema # None
    THEN ParseResult(st.resultSchema[1], currentResult)
    ELSE Return(currentResult, <<>>)

\* a JavaScript value that is falsy
Falsy(v) == v.t \in {"undef", "nan"} \/ v = Num(0)

\* async handling that takes a falsy result for no result and lets it through
AsyncResultTruthy(st, result) ==
    IF st.isAsync /\ ~Falsy(result) /\ ~IsPromise(result) THEN PromiseResolve(result)
    ELSE result

\* 6. a result that is not deferred is wrapped when the callable is async
AsyncResult(st, result) ==
    IF st.isAsync /\ ~IsPromise(result) THEN PromiseResolve(result) ELSE result

\* the hooks of a list that run: all of them, or those up to the first one
\* that throws
Reached(failing, n) ==
    IF failing = {} THEN n ELSE CHOOSE j \in failing : \A k \in failing : j <= k

\* before hooks that run only once core logic is known to be there
BeforeHooksImplemented(st, i, vp) ==
    LET failing == {j \in 1..Len(st.beforeHooks) :
                      CallBefore(st.beforeHooks[j], vp).kind = "throw"}
        n == Reached(failing, Len(st.beforeHooks))
        ev == [j \in 1..n |->
                 Ev(i, "before", st.beforeHooks[j], Obj(vp), Undef,
                    CallBefore(st.beforeHooks[j], vp).v)]
    IN  IF st.implementation.k = "none" THEN Return(Undef, <<>>)
        ELSE IF failing = {} THEN Return(Undef, ev) ELSE Throw(ev[n].out, ev)

\* before hooks whose failures are caught and dropped
BeforeHooksSwallowed(st, i, vp) ==
    Return(Undef, [j \in 1..Len(st.beforeHooks) |->
                     Ev(i, "before", st.beforeHooks[j], Obj(vp), Undef,
                        CallBefore(st.beforeHooks[j], vp).v)])

\* 4. beforeHooks.forEach(hook => hook(validatedProps)): what the hooks return
\* is dropped, the first failure ends the loop and is thrown on
BeforeHooks(st, i, vp) ==
    LET failing == {j \in 1..Len(st.beforeHooks) :
                      CallBefore(st.beforeHooks[j], vp).kind = "throw"}
        n == Reached(failing, Len(st.beforeHooks))
        ev == [j \in 1..n |->
                 Ev(i, "before", st.beforeHooks[j], Obj(vp), Undef,
                    CallBefore(st.beforeHooks[j], vp).v)]
    IN  IF failing = {} THEN Return(Undef, ev) ELSE Throw(ev[n].out, ev)

\* after hooks run last added first
AfterHooksReversed(st, i, r, vp) ==
    LET n == Len(st.afterHooks)
        failing == {j \in 1..n : CallAfter(st.afterHooks[n + 1 - j], r, vp).kind = "throw"}
        m == Reached(failing, n)
        ev == [j \in 1..m |->
                 Ev(i, "after", st.afterHooks[n + 1 - j], r, Obj(vp),
                    CallAfter(st.afterHooks[n + 1 - j], r, vp).v)]
    IN  IF failing = {} THEN Return(Undef, ev) ELSE Throw(ev[m].out, ev)

\* 8. afterHooks.forEach(hook => hook(validatedResult, validatedProps)),
\* likewise
AfterHooks(st, i, r, vp) ==
    LET failing == {j \in 1..Len(st.afterHooks) :
                      CallAfter(st.afterHooks[j], r, vp).kind = "throw"}
        n == Reached(failing, Len(st.afterHooks))
        ev == [j \in 1..n |->
                 Ev(i, "after", st.afterHooks[j], r, Obj(vp),
                    CallAfter(st.afterHooks[j], r, vp).v)]
    IN  IF failing = {} THEN Return(Undef, ev) ELSE Throw(ev[n].out, ev)

RECURSIVE InputTrail(_, _)
\* 3. the output of each input mapper, in list order
InputTrail(mappers, p) ==
    IF mappers = <<>> THEN <<>>
    ELSE LET q == ApplyInput(Head(mappers), p) IN <<q>> \o InputTrail(Tail(mappers), q)

RECURSIVE OutputTrail(_, _, _)
\* 7. the output of each output mapper, in list order
OutputTrail(mappers, r, vp) ==
    IF mappers = <<>> THEN <<>>
    ELSE LET q == ApplyOutput(Head(mappers), r, vp) IN <<q>> \o OutputTrail(Tail(mappers), q, vp)

EndOf(trail, start) == IF trail = <<>> THEN start ELSE trail[Len(trail)]

\* the unimplemented-pipeline error without the key
UnimplementedAnonymous(key) == Err("Error", "Blueprint has not been implemented.")

Unimplemented(key) ==
    Err("Error", "Blueprint " \o (IF Truthy(key) THEN "'" \o key[1] \o "' " ELSE "")
                 \o "has not been implemented.")

\* processResultAndFinalize running the after hooks ahead of result validation
FinalizeHooksFirst(st, i, vp, r) ==
    LET trail == OutputTrail(st.outputMappers, r, vp)
        mapped == EndOf(trail, r)
        outEv == [j \in 1..Len(trail) |->
                    Ev(i, "outputMap", st.outputMappers[j],
                       IF j = 1 THEN r ELSE trail[j - 1], Obj(vp), trail[j])]
        hooks == AfterHooks(st, i, mapped, vp)
        afterEv == hooks.ev
        checks == st.validateResults /\ st.resultSchema # None
        parsed == IF checks THEN ParseResult(st.resultSchema[1], mapped)
                  ELSE Return(mapped, <<>>)
        valEv == IF checks
                 THEN <<Ev(i, "validateResult", st.resultSchema[1], mapped, Undef, parsed.v)>>
                 ELSE <<>>
    IN  IF hooks.kind = "throw" THEN Throw(hooks.v, outEv \o afterEv)
        ELSE IF parsed.kind = "throw" THEN Throw(parsed.v, outEv \o afterEv \o valEv)
        ELSE LET ret == IF st.isVoid THEN Undef ELSE parsed.v
                 voidEv == <<Ev(i, "void", IF st.isVoid THEN "collapse" ELSE "keep",
                                parsed.v, Undef, ret)>>
             IN  Return(ret, outEv \o afterEv \o valEv \o voidEv)

\* processResultAndFinalize leaving a void callable before its after hooks
FinalizeVoidFirst(st, i, vp, r) ==
    LET trail == OutputTrail(st.outputMappers, r, vp)
        mapped == EndOf(trail, r)
        outEv == [j \in 1..Len(trail) |->
                    Ev(i, "outputMap", st.outputMappers[j],
                       IF j = 1 THEN r ELSE trail[j - 1], Obj(vp), trail[j])]
        checks == st.validateResults /\ st.resultSchema # None
        parsed == IF checks THEN ParseResult(st.resultSchema[1], mapped)
                  ELSE Return(mapped, <<>>)
        valEv == IF checks
                 THEN <<Ev(i, "validateResult", st.resultSchema[1], mapped, Undef, parsed.v)>>
                 ELSE <<>>
    IN  IF parsed.kind = "throw" THEN Throw(parsed.v, outEv \o valEv)
        ELSE LET hooks == IF st.isVoid THEN Return(Undef, <<>>)
                          ELSE AfterHooks(st, i, parsed.v, vp)
                 ret == IF st.isVoid THEN Undef ELSE parsed.v
                 voidEv == <<Ev(i, "void", IF st.isVoid THEN "collapse" ELSE "keep",
                                parsed.v, Undef, ret)>>
             IN  IF hooks.kind = "throw" THEN Throw(hooks.v, outEv \o valEv \o hooks.ev)
                 ELSE Return(ret, outEv \o valEv \o hooks.ev \o voidEv)

\* 7 .. 9: output mappers, result validation, after hooks, void handling
ProcessResultAndFinalize(st, i, vp, r) ==
    LET failingAt == {j \in 1..Len(st.outputMappers) :
                        st.outputMappers[j] \in FailingOutputTransforms}
        returning == Reached(failingAt, Len(st.outputMappers) + 1) - 1
        trail == OutputTrail(SubSeq(st.outputMappers, 1, returning), r, vp)
        mapped == EndOf(trail, r)
        outEv == [j \in 1..Len(trail) |->
                    Ev(i, "outputMap", st.outputMappers[j],
                       IF j = 1 THEN r ELSE trail[j - 1], Obj(vp), trail[j])]
        checks == st.validateResults /\ st.resultSchema # None
        parsed == ValidatedResult(st, mapped)
        valEv == IF checks
                 THEN <<Ev(i, "validateResult", st.resultSchema[1], mapped, Undef, parsed.v)>>
                 ELSE <<>>
    IN  IF failingAt # {}
        THEN Throw(OutBoom, outEv \o <<Ev(i, "outputMap", st.outputMappers[returning + 1],
                                          mapped, Obj(vp), OutBoom)>>)
        ELSE IF parsed.kind = "throw" THEN Throw(parsed.v, outEv \o valEv)
        ELSE LET hooks == AfterHooks(st, i, parsed.v, vp)
                 ret == IF st.isVoid THEN Undef ELSE parsed.v
                 voidEv == <<Ev(i, "void", IF st.isVoid THEN "collapse" ELSE "keep",
                                parsed.v, Undef, ret)>>
             IN  IF hooks.kind = "throw" THEN Throw(hooks.v, outEv \o valEv \o hooks.ev)
                 ELSE Return(ret, outEv \o valEv \o hooks.ev \o voidEv)

\* the stages behind core logic run on a deferred result before the
\* invocation returns, as if it waited for the result
FinalizationAwaited(st, i, vp, result, ev) ==
    IF IsPromise(result) /\ result.settle = "resolved"
    THEN LET fin == ProcessResultAndFinalize(st, i, vp, result.v)
         IN  Return(Then(PromiseResolve(result.v), [fin EXCEPT !.ev = <<>>]), ev \o fin.ev)
    ELSE IF IsPromise(result) THEN Return(result, ev)
    ELSE LET fin == ProcessResultAndFinalize(st, i, vp, result)
         IN  [fin EXCEPT !.ev = ev \o fin.ev]

\* result.then(processResultAndFinalize) for a deferred result: the invocation
\* returns after the events ev, the stages run when the result resolves;
\* processResultAndFinalize(result) at once otherwise
Finalization(st, i, vp, result, ev) ==
    IF IsPromise(result)
    THEN Return(Then(result, ProcessResultAndFinalize(st, i, vp, result.v)), ev)
    ELSE LET fin == ProcessResultAndFinalize(st, i, vp, result)
         IN  [fin EXCEPT !.ev = ev \o fin.ev]

\* from's implementation passing on only the keys the record has
FromImplementationPresent(impl, props) ==
    LET there == SelectSeq(impl.keys, LAMBDA key : key \in DOMAIN props)
    IN  Return(ApplyFn(impl.fn, [j \in 1..Len(there) |-> props[there[j]]]), <<>>)

\* the implementation from installs: args = keys.map(key => props[key]),
\* then fn(...args)
FromImplementation(impl, props) ==
    Return(ApplyFn(impl.fn, [j \in 1..Len(impl.keys) |-> Get(props, impl.keys[j])]), <<>>)

\* a failure that an async callable hands back as a rejected deferred value,
\* as a function declared async would
RaiseDeferred(st, e, ev) ==
    IF st.isAsync THEN Return(Deferred("rejected", e, <<>>), ev) ELSE Throw(e, ev)

\* an exception leaves callableBlueprint: it is thrown to the caller, whatever
\* isAsync says
Raise(st, e, ev) == Throw(e, ev)

RECURSIVE Call(_, _, _)
RECURSIVE RunImplementation(_, _, _, _)
RECURSIVE ExecuteNext(_, _, _, _)

\* pipe's executeNext: the next blueprint or function on the resolved result
ExecuteNext(h, i, nxt, r) ==
    IF nxt.k = "bp" THEN Call(h, nxt.ref, r)
    ELSE LET out == ApplyNext(nxt.f, r)
         IN  Return(out, <<Ev(i, "next", nxt.f, r, Undef, out)>>)

\* pipe's newImplementation handing a rejection of the left side to next too
RunImplementationEither(h, i, impl, vp) ==
    IF impl.k = "fn" THEN CallCore(impl.f, vp)
    ELSE IF impl.k = "from" THEN FromImplementation(impl, vp)
    ELSE LET inner == Call(h, impl.left, Obj(vp))
         IN  IF inner.kind = "throw" THEN inner
             ELSE IF IsPromise(inner.v)
             THEN Return(ThenEither(inner.v, ExecuteNext(h, i, impl.next, inner.v.v)), inner.ev)
             ELSE LET nx == ExecuteNext(h, i, impl.next, inner.v)
                  IN  [nx EXCEPT !.ev = inner.ev \o nx.ev]

\* 5. currentState.implementation(validatedProps): caller-supplied core logic,
\* or pipe's newImplementation
RunImplementation(h, i, impl, vp) ==
    IF impl.k = "fn" THEN CallCore(impl.f, vp)
    ELSE IF impl.k = "from" THEN FromImplementation(impl, vp)
    ELSE LET inner == Call(h, impl.left, Obj(vp))
         IN  IF inner.kind = "throw" THEN inner
             ELSE IF IsPromise(inner.v)
             THEN Return(Then(inner.v, ExecuteNext(h, i, impl.next, inner.v.v)), inner.ev)
             ELSE LET nx == ExecuteNext(h, i, impl.next, inner.v)
                  IN  [nx EXCEPT !.ev = inner.ev \o nx.ev]

\* callableBlueprint(props): the invocation of callable i of heap h
Call(h, i, props) ==
    LET st == h[i]
        cur == InitialProps(st, props)
        providerFails == \E j \in 1..Len(st.defaultProviders) :
                            st.defaultProviders[j] \in FailingDefaultArgs
        resolved == ResolveDefaults(st.defaultProviders, cur)
        merged == ApplyDefaults(resolved, props)
        enforced == ApplyEnforced(merged, st.enforcedValues)
        failingAt == {j \in 1..Len(st.inputMappers) :
                        st.inputMappers[j] \in FailingInputTransforms}
        returning == Reached(failingAt, Len(st.inputMappers) + 1) - 1
        trail == InputTrail(SubSeq(st.inputMappers, 1, returning), enforced)
        mapped == EndOf(trail, enforced)
        checks == st.validateProps /\ st.propsSchema # None
        parsed == ValidatedProps(st, mapped)
        mapEv == [j \in 1..Len(trail) |->
                    Ev(i, "inputMap", st.inputMappers[j],
                       Obj(IF j = 1 THEN enforced ELSE trail[j - 1]), Undef, Obj(trail[j]))]
        valEv == IF checks
                 THEN <<Ev(i, "validateProps", st.propsSchema[1], Obj(mapped), Undef, parsed.v)>>
                 ELSE <<>>
        ev0 == << Ev(i, "defaults", "", cur, Undef, Obj(resolved)),
                  Ev(i, "merge", "", props, Undef, Obj(merged)),
                  Ev(i, "enforce", "", Obj(merged), Undef, Obj(enforced)) >>
               \o mapEv
        ev1 == ev0 \o valEv
    IN  IF providerFails
        THEN Raise(st, ProviderBoom, <<Ev(i, "defaults", "", cur, Undef, ProviderBoom)>>)
        ELSE IF failingAt # {}
        THEN Raise(st, MapBoom,
                   ev0 \o <<Ev(i, "inputMap", st.inputMappers[returning + 1],
                               Obj(mapped), Undef, MapBoom)>>)
        ELSE IF parsed.kind = "throw" THEN Raise(st, parsed.v, ev1)
        ELSE
        LET vp == parsed.v.o
            hooks == BeforeHooks(st, i, vp)
            ev2 == ev1 \o hooks.ev
        IN  IF hooks.kind = "throw" THEN Raise(st, hooks.v, ev2)
            ELSE IF st.implementation.k = "none" THEN Raise(st, Unimplemented(st.key), ev2)
            ELSE
            LET core == RunImplementation(h, i, st.implementation, vp)
                ev3 == ev2 \o <<Ev(i, "core", st.implementation.k, Obj(vp), Undef, core.v)>>
                           \o core.ev
            IN  IF core.kind = "throw" THEN Raise(st, core.v, ev3)
                ELSE
                LET result == AsyncResult(st, core.v)
                    wrap == IsPromise(result) /\ ~IsPromise(core.v)
                    ev4 == ev3 \o <<Ev(i, "async", IF wrap THEN "wrap" ELSE "pass",
                                       core.v, Undef, result)>>
                IN  Finalization(st, i, vp, result, ev4)

\* ---------------------------------------------------------- chain methods

\* makeCallable writing the derived state into the receiver's state object
makeCallableShared(h, recv, st) ==
    [heap |-> Append([h EXCEPT ![recv] = st], st), ret |-> Len(h) + 1]

\* makeCallable handing back the receiver when the state did not change
makeCallableMemo(h, recv, st) ==
    IF st = h[recv] THEN [heap |-> h, ret |-> recv]
    ELSE [heap |-> Append(h, st), ret |-> Len(h) + 1]

\* makeCallable(state): a new callable closing over its own state; the heap
\* with it, and the callable returned.
makeCallable(h, recv, st) == [heap |-> Append(h, st), ret |-> Len(h) + 1]

\* implement starting over from an unconfigured state with the new core logic
implementFresh(st, newImpl) ==
    [initialState([key |-> st.key, description |-> st.description,
                   initialImplementation |-> newImpl])
        EXCEPT !.isAsync = st.isAsync, !.isVoid = st.isVoid]

implement(st, newImpl) == [st EXCEPT !.implementation = newImpl]

\* input adding the transform behind the ones already there
inputAppend(st, transform) == [st EXCEPT !.inputMappers = Append(@, transform)]

input(st, transform) == [st EXCEPT !.inputMappers = <<transform>> \o @]

\* defaults putting the provider ahead of the ones already there
defaultsPrepend(st, provider) == [st EXCEPT !.defaultProviders = <<provider>> \o @]

defaults(st, provider) == [st EXCEPT !.defaultProviders = Append(@, provider)]

enforce(st, enforcedRecord) == [st EXCEPT !.enforcedValues = Spread(@, enforcedRecord)]

\* output adding the transform ahead of the ones already there
outputPrepend(st, transform) == [st EXCEPT !.outputMappers = <<transform>> \o @]

output(st, transform) == [st EXCEPT !.outputMappers = Append(@, transform)]

before(st, effect) == [st EXCEPT !.beforeHooks = Append(@, effect)]

after(st, effect) == [st EXCEPT !.afterHooks = Append(@, effect)]

toAsync(st) == [st EXCEPT !.isAsync = TRUE]

toVoid(st) == [st EXCEPT !.isVoid = TRUE]

\* zProps keeping a validator that is attached already
zPropsKeepFirst(st, schema) ==
    [st EXCEPT !.propsSchema = IF @ = None THEN Some(schema) ELSE @, !.validateProps = TRUE]

\* zProps attaching the validator and leaving the flag as it is
zPropsNoFlag(st, schema) == [st EXCEPT !.propsSchema = Some(schema)]

zProps(st, schema) == [st EXCEPT !.propsSchema = Some(schema), !.validateProps = TRUE]

zResult(st, schema) == [st EXCEPT !.resultSchema = Some(schema), !.validateResults = TRUE]

\* a piped callable starting out not async, like a callable the factory makes
pipedIsAsyncOff(st) == FALSE

\* the flags the piped callable starts with
pipedIsAsync(st) == st.isAsync

pipedIsVoid(st) == st.isVoid

\* pipe deriving the piped state from the receiver's, as the other chain
\* methods do: { ...currentState, implementation: newImplementation }
pipeKeepsState(st, i, nxt) ==
    [st EXCEPT !.implementation = [k |-> "piped", left |-> i, next |-> nxt]]

\* pipe(next) on callable i: a fresh state whose core logic runs i, then next
pipe(st, i, nxt) ==
    [ key |-> IF Truthy(st.key) THEN Some(st.key[1] \o " |> piped") ELSE None,
      description |-> IF Truthy(st.description)
                      THEN Some(st.description[1] \o ", then piped") ELSE None,
      implementation |-> [k |-> "piped", left |-> i, next |-> nxt],
      inputMappers |-> <<>>,
      outputMappers |-> <<>>,
      beforeHooks |-> <<>>,
      afterHooks |-> <<>>,
      defaultProviders |-> <<>>,
      enforcedValues |-> EmptyObj,
      isAsync |-> pipedIsAsync(st),
      isVoid |-> pipedIsVoid(st),
      propsSchema |-> None,
      validateProps |-> FALSE,
      resultSchema |-> None,
      validateResults |-> FALSE ]

\* the factories passed to mod and more: c => c and c => c.toAsync()
ModFactories == {"self", "async"}

\* what pipe is handed: a plain function or a blueprint already constructed
NextArgs == {[k |-> "fn", f |-> g] : g \in NextFns}
            \cup {[k |-> "bp", ref |-> j] : j \in 1..Len(callables)}

\* ------------------------------------------------------------------ actions

NoCall == [phase |-> "none"]

NoOp == [op |-> "blueprint", recv |-> 0, ret |-> 1]

\* nothing done yet on the addon-capable engine; no hook rendered
NoAddonOp == [op |-> "none"]

NoHook == [phase |-> "none", calls |-> <<>>]

Init ==
    /\ \E o \in FactoryArgs : callables = <<initialState(o)>>
    /\ derivation = << <<>> >>
    /\ lastOp = NoOp
    /\ last = NoCall
    /\ inflight = <<>>
    /\ objects = <<>>
    /\ attached = <<>>
    /\ addonOp = NoAddonOp
    /\ ui = NoHook

\* the callables constructed so far
Constructed == 1..Len(callables)

\* the callables a chain method may be called on while fewer than n exist: the
\* base (a template specialised along several branches) or the one constructed
\* last (a fluent chain); or the last one only
Anyone(n) == IF Len(callables) < n THEN {1, Len(callables)} ELSE {}

Latest(n) == IF Len(callables) < n THEN {Len(callables)} ELSE {}

\* the invocation the run still watches: one that is pending stays, a
\* finished one is dropped when the caller goes on to build
Watched == IF last.phase = "pending" THEN last ELSE NoCall

\* a chain method op on callable recv, deriving state st; steps are the
\* derivation of st's own configuration
Construct(op, recv, st, steps) ==
    LET made == makeCallable(callables, recv, st)
    IN  /\ callables' = made.heap
        /\ derivation' = IF Len(made.heap) > Len(callables)
                         THEN Append(derivation, steps) ELSE derivation
        /\ lastOp' = [op |-> op, recv |-> recv, ret |-> made.ret]
        /\ last' = Watched
        /\ UNCHANGED <<inflight, addonVars, ui>>

Step(op, arg) == [op |-> op, arg |-> arg]

Derived(recv, op, arg) == Append(derivation[recv], Step(op, arg))

Implement(R, A) ==
    \E i \in R, f \in A :
        Construct("implement", i, implement(callables[i], CoreFn(f)), Derived(i, "implement", f))

Input(R, A) ==
    \E i \in R, t \in A :
        Construct("input", i, input(callables[i], t), Derived(i, "input", t))

Defaults(R, A) ==
    \E i \in R, d \in A :
        Construct("defaults", i, defaults(callables[i], d), Derived(i, "defaults", d))

Enforce(R, A) ==
    \E i \in R, e \in A :
        Construct("enforce", i, enforce(callables[i], EnforcedOf(e)), Derived(i, "enforce", e))

Output(R, A) ==
    \E i \in R, t \in A :
        Construct("output", i, output(callables[i], t), Derived(i, "output", t))

Before(R, A) ==
    \E i \in R, e \in A :
        Construct("before", i, before(callables[i], e), Derived(i, "before", e))

After(R, A) ==
    \E i \in R, e \in A :
        Construct("after", i, after(callables[i], e), Derived(i, "after", e))

ToAsync(R) ==
    \E i \in R :
        Construct("toAsync", i, toAsync(callables[i]), Derived(i, "toAsync", ""))

ToVoid(R) ==
    \E i \in R :
        Construct("toVoid", i, toVoid(callables[i]), Derived(i, "toVoid", ""))

ZProps(R, A) ==
    \E i \in R, s \in A :
        Construct("zProps", i, zProps(callables[i], s), Derived(i, "zProps", s))

ZResult(R, A) ==
    \E i \in R, s \in A :
        Construct("zResult", i, zResult(callables[i], s), Derived(i, "zResult", s))

Pipe(R, A) ==
    \E i \in R, n \in A :
        Construct("pipe", i, pipe(callables[i], i, n), <<Step("pipe", "")>>)

\* mod(modFn) and more(modFn): return modFn(callableBlueprint)
ModWith(op, i, f) ==
    IF f = "self"
    THEN /\ lastOp' = [op |-> op, recv |-> i, ret |-> i]
         /\ last' = Watched
         /\ UNCHANGED <<callables, derivation, inflight, addonVars, ui>>
    ELSE Construct(op, i, toAsync(callables[i]), Derived(i, "toAsync", ""))

Mod(R, A) == \E i \in R, f \in A : ModWith("mod", i, f)

More(R, A) == \E i \in R, f \in A : ModWith("more", i, f)

\* the key arrays from is handed
KeyArrays == {<<"a", "b">>, <<"b", "a">>, <<"b">>, <<"c", "a">>, <<>>}

\* from(fn, keys): blueprint().implement(props => fn(...keys.map(...)))
from(fn, keys) ==
    implement(initialState([key |-> None, description |-> None,
                            initialImplementation |-> NoImplementation]),
              [k |-> "from", fn |-> fn, keys |-> keys])

\* from(fn, keys) is called: blueprint() makes a callable, implement derives
\* the one returned from it
From(F, K) ==
    \E fn \in F, keys \in K :
        LET base == makeCallable(callables, 0, initialState([key |-> None, description |-> None,
                                                  initialImplementation |-> NoImplementation]))
            made == makeCallable(base.heap, base.ret, from(fn, keys))
        IN  /\ Len(callables) < MaxChain
            /\ callables' = made.heap
            /\ derivation' = derivation \o << <<>>, <<Step("from", <<fn, keys>>)>> >>
            /\ lastOp' = [op |-> "from", recv |-> 0, ret |-> made.ret]
            /\ last' = Watched
            /\ UNCHANGED <<inflight, addonVars, ui>>

\* the callables from returned
FromMade == {i \in Constructed : callables[i].implementation.k = "from"}

\* records with and without the keys listed, and with keys not listed
Records ==
    { Obj(EmptyObj), Obj(MkObj([a |-> Num(5)])), Obj(MkObj([a |-> Num(5), b |-> Num(10)])),
      Obj(MkObj([b |-> Num(10), c |-> Num(1)])),
      Obj(MkObj([a |-> Num(5), b |-> Num(10), c |-> Num(1)])) }

\* callable i is invoked with x: everything up to its return runs
Invoke(R, X) ==
    \E i \in R, x \in X :
        LET r == Call(callables, i, x)
        IN  /\ last.phase = "none"
            /\ last' = [ c |-> i, x |-> x, kind |-> r.kind, v |-> r.v, ev |-> r.ev,
                         phase |-> IF r.kind = "return" /\ IsPromise(r.v)
                                   THEN "pending" ELSE "done" ]
            /\ lastOp' = [op |-> "call", recv |-> i, ret |-> 0]
            /\ UNCHANGED <<callables, derivation, inflight, addonVars, ui>>

\* the deferred value the pending invocation returned settles: the stages
\* scheduled behind it have run
Settle ==
    /\ last.phase = "pending"
    /\ last' = [last EXCEPT !.phase = "settled", !.ev = @ \o last.v.post]
    /\ UNCHANGED <<callables, derivation, lastOp, inflight, addonVars, ui>>

\* a deferred value that has not settled
Pending == [t |-> "promise", settle |-> "pending"]

\* the first event of stage s that callable i itself ran among ev
StageOf(ev, i, s) == SelectSeq(ev, LAMBDA e : e.c = i /\ e.s = s)[1]

\* the invocation of callable i with x up to its return: what it returned or
\* threw and, when it returned a deferred value, what the callback it attached
\* closes over (validatedProps) and the deferred result it is attached to
Started(i, x) ==
    LET r == Call(callables, i, x)
        deferred == r.kind = "return" /\ IsPromise(r.v)
    IN  [ c |-> i, x |-> x, kind |-> r.kind, ev |-> r.ev,
          phase |-> IF deferred THEN "pending" ELSE "done",
          v |-> IF deferred THEN Pending ELSE r.v,
          validatedProps |-> IF deferred THEN StageOf(r.ev, i, "core").arg.o ELSE EmptyObj,
          result |-> IF deferred THEN StageOf(r.ev, i, "async").out ELSE Undef ]

\* the callables an overlapping invocation is of: one whose core logic returns
\* deferred values, then the same one again, or one with an equal state
Overlapping ==
    IF inflight = <<>>
    THEN {i \in Constructed : callables[i].implementation = CoreFn("sumAsync")}
    ELSE {i \in Constructed : callables[i] = callables[inflight[1].c]}

\* callable i is invoked with x while earlier invocations are still pending
Start(R, X) ==
    \E i \in R, x \in X :
        /\ Len(inflight) < MaxInflight
        /\ inflight' = Append(inflight, Started(i, x))
        /\ UNCHANGED <<callables, derivation, lastOp, last, addonVars, ui>>

\* one validatedProps for all the invocations: the one started last
CapturedShared(q, k) == q[Len(q)].validatedProps

\* the validatedProps the k-th invocation's processResultAndFinalize closes over
Captured(q, k) == q[k].validatedProps

\* the deferred result of any one pending invocation settles, and its
\* processResultAndFinalize runs
Finish ==
    \E k \in 1..Len(inflight) :
        LET own == inflight[k]
            settled == Then(own.result,
                            ProcessResultAndFinalize(callables[own.c], own.c,
                                                     Captured(inflight, k), own.result.v))
        IN  /\ own.phase = "pending"
            /\ inflight' = [inflight EXCEPT ![k] =
                               [own EXCEPT !.phase = "settled", !.v = settled,
                                           !.ev = @ \o settled.post]]
            /\ UNCHANGED <<callables, derivation, lastOp, last, addonVars, ui>>

\* ------------------------------------------------ the addon-capable engine

\* the methods blueprint() sets on every _blueprint
BaseMethods ==
    {"implement", "mod", "addon", "enforce", "defaults", "returning", "async", "void"}

\* (_props) => { throw new Error('Not Implemented') }
NotImplemented == [k |-> "notImplemented"]

\* what the factory is called with: {}, {init}, {key, description}
BlueprintOptions ==
    { [key |-> None, description |-> None, addons |-> <<>>, init |-> NotImplemented],
      [key |-> None, description |-> None, addons |-> <<>>, init |-> CoreFn("sum")],
      [key |-> Some("k"), description |-> Some("d"), addons |-> <<>>, init |-> NotImplemented] }

\* blueprint(options): the function object _blueprint with its own fields, and
\* the implementation cell of the closure it runs
blueprintObject(options) ==
    [ implementation |-> options.init,
      key |-> options.key,
      description |-> options.description,
      addons |-> options.addons,
      fields |-> [n \in BaseMethods |-> "blueprint." \o n] ]

\* capability bundles: {core: {some, tag}}, {core: {fone, tag}} and
\* {core: {void}}, whose field has the name of a method of the base interface
Addons == {"soonAddon", "lateAddon", "voidAddon"}

\* the network bundle: {core: {request}}, whose method calls this.mod
OtherAddons == {"requestAddon"}

CoreOf(a) ==
    IF a = "soonAddon" THEN [some |-> "soonAddon.some", tag |-> "soonAddon.tag"]
    ELSE IF a = "requestAddon" THEN [request |-> "requestAddon.request"]
    ELSE IF a = "lateAddon" THEN [fone |-> "lateAddon.fone", tag |-> "lateAddon.tag"]
    ELSE [void |-> "voidAddon.void"]

\* addon keeping a field that is there already
blueprintAddonKeep(h, recv, a) ==
    [ heap |-> [h EXCEPT ![recv] = [@ EXCEPT !.addons = Append(@, a),
                                             !.fields = Spread(CoreOf(a), @)]],
      ret |-> recv ]

\* _blueprint.addon(addon): Object.assign(_blueprint, { addons: [...], ...addon.core })
\* writes onto the receiver and returns it
blueprintAddon(h, recv, a) ==
    [ heap |-> [h EXCEPT ![recv] = [@ EXCEPT !.addons = Append(@, a),
                                             !.fields = Spread(@, CoreOf(a))]],
      ret |-> recv ]

\* _blueprint.implement(newImplementation): assigns the closure's cell and
\* returns the receiver
blueprintImplement(h, recv, f) ==
    [ heap |-> [h EXCEPT ![recv].implementation = CoreFn(f)], ret |-> recv ]

\* the functions mod is handed by enforce, defaults, async and void
Wrap(w, arg) == [w |-> w, arg |-> arg]

\* mod handing the receiver's fields, those of its bundles included, on to the
\* new blueprint
blueprintModMerging(h, recv, wrap) ==
    [ heap |-> Append(h, [blueprintObject(
                 [ key |-> h[recv].key,
                   description |-> h[recv].description,
                   addons |-> h[recv].addons,
                   init |-> [k |-> "mod", of |-> recv, wrap |-> wrap] ])
                 EXCEPT !.fields = h[recv].fields]),
      ret |-> Len(h) + 1 ]

\* _blueprint.mod(mod): a new blueprint that carries the receiver's addons
\* list, key and description, its init calling mod(_blueprint)(props)
blueprintMod(h, recv, wrap) ==
    [ heap |-> Append(h, blueprintObject(
                 [ key |-> h[recv].key,
                   description |-> h[recv].description,
                   addons |-> h[recv].addons,
                   init |-> [k |-> "mod", of |-> recv, wrap |-> wrap] ])),
      ret |-> Len(h) + 1 ]

\* a function passed where props are expected, and the failure of calling
\* what is not a function
FunctionValue == [t |-> "function"]

NotAFunction == Err("TypeError", "is not a function")

\* the response body the network bundle's fetch resolves to
ResponseJson == [t |-> "json"]

\* { ...props } of what a callable is handed
PropsOf(props) == IF props.t = "obj" THEN props.o ELSE EmptyObj

RECURSIVE Run(_, _, _)
\* _blueprint(props): implementation(props), through the wrappers mod built
Run(h, i, props) ==
    LET impl == h[i].implementation
    IN  IF impl.k = "notImplemented" THEN Throw(Err("Error", "Not Implemented"), <<>>)
        ELSE IF impl.k = "fn" THEN CallCore(impl.f, PropsOf(props))
        ELSE IF impl.wrap.w = "enforce"
        THEN Run(h, impl.of, Obj(Spread(PropsOf(props), EnforcedOf(impl.wrap.arg))))
        ELSE IF impl.wrap.w = "defaults"
        THEN Run(h, impl.of, Obj(Spread(ApplyProvider(impl.wrap.arg, props), PropsOf(props))))
        ELSE IF impl.wrap.w = "request" THEN Return(PromiseResolve(ResponseJson), <<>>)
        ELSE IF impl.wrap.w = "returning"
        THEN LET c == Run(h, impl.of, FunctionValue)
             IN  IF c.kind = "throw" THEN c ELSE Throw(NotAFunction, <<>>)
        ELSE LET c == Run(h, impl.of, props)
             IN  IF impl.wrap.w = "async"
                 THEN Return(IF c.kind = "throw" THEN Deferred("rejected", c.v, <<>>)
                             ELSE IF IsPromise(c.v) THEN c.v
                             ELSE PromiseResolve(c.v), <<>>)
                 ELSE IF c.kind = "throw" THEN c ELSE Return(Undef, <<>>)

\* blueprint({...}) on the addon-capable engine; the state-based engine idle
InitAddon ==
    /\ callables = <<initialState([key |-> None, description |-> None,
                                   initialImplementation |-> NoImplementation])>>
    /\ derivation = << <<>> >>
    /\ lastOp = NoOp
    /\ last = NoCall
    /\ inflight = <<>>
    /\ \E o \in BlueprintOptions : objects = <<blueprintObject(o)>>
    /\ attached = << <<>> >>
    /\ addonOp = [op |-> "blueprint", recv |-> 0, ret |-> 1, arg |-> "", heap |-> <<>>]
    /\ ui = NoHook

\* the function objects a method is called on: the factory's or the one made
\* last; for a method that makes a new one, while fewer than n exist
Objects == {1, Len(objects)}

ObjectsBelow(n) == IF Len(objects) < n THEN Objects ELSE {}

\* the function object made last, for a fluent chain
LatestObject == {Len(objects)}

LatestBelow(n) == IF Len(objects) < n THEN LatestObject ELSE {}

\* a method op of callable recv with argument arg returned made.ret and left
\* the heap made.heap; bundles is what addon calls have attached to made.ret
MethodCall(op, recv, arg, made, bundles) ==
    /\ objects' = made.heap
    /\ attached' = IF Len(made.heap) > Len(objects) THEN Append(attached, bundles)
                   ELSE [attached EXCEPT ![made.ret] = bundles]
    /\ addonOp' = [op |-> op, recv |-> recv, ret |-> made.ret, arg |-> arg, heap |-> objects]
    /\ UNCHANGED <<callables, derivation, lastOp, last, inflight, ui>>

BpImplement(R, A) ==
    \E i \in R, f \in A :
        MethodCall("implement", i, f, blueprintImplement(objects, i, f), attached[i])

BpAddon(R, A) ==
    \E i \in R, a \in A :
        /\ Len(objects[i].addons) < MaxAddons
        /\ MethodCall("addon", i, a, blueprintAddon(objects, i, a), Append(attached[i], a))

\* enforce, defaults, async and void are the base interface's while no bundle
\* has put a field of its own in their place
BpEnforce(R, A) ==
    \E i \in R, e \in A :
        /\ objects[i].fields["enforce"] = "blueprint.enforce"
        /\ MethodCall("enforce", i, e, blueprintMod(objects, i, Wrap("enforce", e)), <<>>)

BpDefaults(R, A) ==
    \E i \in R, d \in A :
        /\ objects[i].fields["defaults"] = "blueprint.defaults"
        /\ MethodCall("defaults", i, d, blueprintMod(objects, i, Wrap("defaults", d)), <<>>)

BpAsync(R) ==
    \E i \in R :
        /\ objects[i].fields["async"] = "blueprint.async"
        /\ MethodCall("async", i, "", blueprintMod(objects, i, Wrap("async", "")), <<>>)

BpVoid(R) ==
    \E i \in R :
        /\ objects[i].fields["void"] = "blueprint.void"
        /\ MethodCall("void", i, "", blueprintMod(objects, i, Wrap("void", "")), <<>>)

\* returning(r => r * 2): mod handed blueprint => blueprint(props => ...),
\* which calls the receiver with a function and hands mod its result
BpReturning(R) ==
    \E i \in R :
        /\ objects[i].fields["returning"] = "blueprint.returning"
        /\ MethodCall("returning", i, "", blueprintMod(objects, i, Wrap("returning", "")), <<>>)

\* request(url) of the network bundle, on a callable that has the method:
\* this.mod(() => props => fetch(url, ...).then(response => response.json()))
BpRequest(R) ==
    \E i \in R :
        /\ "request" \in DOMAIN objects[i].fields
        /\ objects[i].fields["request"] = "requestAddon.request"
        /\ MethodCall("request", i, "url", blueprintMod(objects, i, Wrap("request", "url")), <<>>)

\* callable i of the addon-capable engine is invoked with x
BpInvoke(R, X) ==
    \E i \in R, x \in X :
        /\ addonOp' = [op |-> "call", recv |-> i, ret |-> 0, arg |-> x, heap |-> objects,
                       out |-> Run(objects, i, x)]
        /\ UNCHANGED <<objects, attached, callables, derivation, lastOp, last, inflight, ui>>

\* ------------------------------------------------------------ the React hook

Null == [t |-> "null"]

\* hook(blueprint): blueprint.mod(blueprint => useBlueprint)
Hook(R) ==
    \E i \in R :
        MethodCall("hook", i, "", blueprintMod(objects, i, Wrap("hook", "")), <<>>)

\* the callables hook returned
Hooked ==
    {i \in 1..Len(objects) :
        objects[i].implementation.k = "mod" /\ objects[i].implementation.wrap.w = "hook"}

\* useBlueprint(props), first render: the four useState cells, no trigger
\* called yet
UseBlueprint(R, X) ==
    \E i \in R, props \in X :
        /\ ui.phase = "none"
        /\ ui' = [ phase |-> "rendered", of |-> objects[i].implementation.of, props |-> props,
                   loading |-> TRUE, args |-> props, result |-> Undef, error |-> Null,
                   calls |-> <<>>, at |-> 0 ]
        /\ UNCHANGED <<callables, derivation, lastOp, last, inflight, addonVars>>

\* overwrite || props
Chosen(overwrite, props) ==
    IF overwrite # None /\ ~Falsy(overwrite[1]) THEN overwrite[1] ELSE props

\* trigger(overwrite) up to its await: loading and args are set and the
\* pipeline is called
Trigger(O) ==
    \E overwrite \in O :
        LET with == Chosen(overwrite, ui.props)
        IN  /\ ui.phase = "rendered"
            /\ Len(ui.calls) < MaxInflight
            /\ ui' = [ui EXCEPT
                        !.loading = TRUE,
                        !.args = with,
                        !.calls = Append(@, [ overwrite |-> overwrite, with |-> with,
                                              out |-> Run(objects, ui.of, with),
                                              phase |-> "pending", promise |-> Pending ]),
                        !.at = Len(ui.calls) + 1]
            /\ UNCHANGED <<callables, derivation, lastOp, last, inflight, addonVars>>

\* the pipeline call of a completion failed: it threw, or its deferred value
\* rejects
Failed(c) == c.kind = "throw" \/ (IsPromise(c.v) /\ c.v.settle = "rejected")

\* what awaiting a completion gives: the value, or the value resolved to
Awaited(c) == IF c.kind = "return" /\ IsPromise(c.v) THEN c.v.v ELSE c.v

\* an error cell that a successful call clears
CaughtOrCleared(error, call) == IF Failed(call.out) THEN Awaited(call.out) ELSE Null

\* catch (e) { setError(e) }: the error cell after a pipeline call settled
Caught(error, call) == IF Failed(call.out) THEN Awaited(call.out) ELSE error

\* the pipeline call of one pending trigger settles: result or error is set,
\* then loading, and trigger's own promise resolves
TriggerSettles ==
    \E k \in 1..Len(ui.calls) :
        LET call == ui.calls[k]
        IN  /\ ui.phase = "rendered"
            /\ call.phase = "pending"
            /\ ui' = [ui EXCEPT
                        !.result = IF Failed(call.out) THEN @ ELSE Awaited(call.out),
                        !.error = Caught(@, call),
                        !.loading = FALSE,
                        !.calls[k].phase = "settled",
                        !.calls[k].promise =
                            PromiseResolve(IF Failed(call.out) THEN Undef
                                           ELSE Awaited(call.out)),
                        !.at = k]
            /\ UNCHANGED <<callables, derivation, lastOp, last, inflight, addonVars>>

\* ---------------------------------------------------------- specifications

\* Every chain method, on the base or on the callable constructed last, one
\* argument each; any callable constructed so far may be invoked.
Next ==
    \/ Implement(Anyone(MaxCallables), {"sumAsync"})
    \/ Input(Anyone(MaxCallables), {"incA"})
    \/ Defaults(Anyone(MaxCallables), {"b2"})
    \/ Enforce(Anyone(MaxCallables), {"b100"})
    \/ Output(Anyone(MaxCallables), {"addA"})
    \/ Before(Anyone(MaxCallables), BeforeEffects)
    \/ After(Anyone(MaxCallables), AfterEffects)
    \/ ToAsync(Anyone(MaxCallables))
    \/ ToVoid(Anyone(MaxCallables))
    \/ ZProps(Anyone(MaxCallables), PropsSchemas)
    \/ ZResult(Anyone(MaxCallables), ResultSchemas)
    \/ Pipe(Anyone(MaxCallables), NextArgs)
    \/ Mod(Anyone(MaxCallables), ModFactories)
    \/ More(Anyone(MaxCallables), ModFactories)
    \/ Invoke(Constructed, {Obj(EmptyObj), Obj(MkObj([a |-> Num(5), b |-> Num(10)])), Num(7)})
    \/ Settle

Spec == Init /\ [][Next]_vars


\* blueprint(input => input.a + input.b)
InitSum ==
    /\ Init
    /\ callables[1].implementation = CoreFn("sum")
    /\ callables[1].key = None

\* A fluent chain of defaults, enforce, input and zProps calls on the sum, and
\* any callable of the chain invoked with any input.
NextProps ==
    \/ Defaults(Latest(MaxChain), DefaultArgs)
    \/ Enforce(Latest(MaxChain), EnforceArgs)
    \/ Input(Latest(MaxChain), InputTransforms)
    \/ ZProps(Latest(MaxChain), PropsSchemas)
    \/ Invoke(Constructed, Inputs)

SpecProps == InitSum /\ [][NextProps]_vars

\* A fluent chain of output, input and toAsync calls on the sum, and any
\* callable of the chain invoked with any input.
NextResult ==
    \/ Output(Latest(MaxChain), OutputTransforms)
    \/ Input(Latest(MaxChain), {"incA"})
    \/ ToAsync(Latest(MaxChain))
    \/ Invoke(Constructed, Inputs)
    \/ Settle

SpecResult == InitSum /\ [][NextResult]_vars

\* A fluent chain of toVoid, toAsync, implement, input, output, before and
\* after calls on the sum, and any callable of the chain invoked with any input.
NextVoid ==
    \/ ToVoid(Latest(MaxChain))
    \/ ToAsync(Latest(MaxChain))
    \/ Implement(Latest(MaxChain), {"sumAsync"})
    \/ Input(Latest(MaxChain), {"incA"})
    \/ Output(Latest(MaxChain), {"addA"})
    \/ Before(Latest(MaxChain), BeforeEffects)
    \/ After(Latest(MaxChain), AfterEffects)
    \/ Invoke(Constructed, Inputs)
    \/ Settle

SpecVoid == InitSum /\ [][NextVoid]_vars

\* A fluent chain of zProps, zResult, before, after, output, toVoid and toAsync
\* calls on the sum, and any callable of the chain invoked with any input.
NextChecks ==
    \/ ZProps(Latest(MaxChain), PropsSchemas \cup OtherPropsSchemas)
    \/ ZResult(Latest(MaxChain), ResultSchemas \cup OtherResultSchemas)
    \/ Before(Latest(MaxChain), BeforeEffects)
    \/ After(Latest(MaxChain), AfterEffects)
    \/ Output(Latest(MaxChain), {"addA"})
    \/ ToVoid(Latest(MaxChain))
    \/ ToAsync(Latest(MaxChain))
    \/ Invoke(Constructed, Inputs)
    \/ Settle

SpecChecks == InitSum /\ [][NextChecks]_vars

\* A fluent chain of implement, toAsync, toVoid, output, zResult and after
\* calls on the sum, and any callable of the chain invoked with any input.
NextAsync ==
    \/ Implement(Latest(MaxChain), {"getA", "sumAsync", "fail", "failAsync"})
    \/ ToAsync(Latest(MaxChain))
    \/ ToVoid(Latest(MaxChain))
    \/ Output(Latest(MaxChain), {"dbl"})
    \/ ZResult(Latest(MaxChain), ResultSchemas)
    \/ After(Latest(MaxChain), AfterEffects)
    \/ Invoke(Constructed, Inputs)
    \/ Settle

SpecAsync == InitSum /\ [][NextAsync]_vars

\* A fluent chain of implement, zProps, toAsync and pipe calls on the sum, next
\* being a plain function or any callable of the chain, and any callable of
\* the chain invoked with any input.
NextPipe ==
    \/ Implement(Latest(MaxChain), {"sumAsync", "fail", "failAsync"})
    \/ ZProps(Latest(MaxChain), PropsSchemas)
    \/ ToAsync(Latest(MaxChain))
    \/ Pipe(Latest(MaxChain), NextArgs)
    \/ Invoke(Constructed, Inputs)
    \/ Settle

SpecPipe == InitSum /\ [][NextPipe]_vars

\* A short fluent chain of implement, output and after calls on the sum, and
\* overlapping invocations of one of its callables (or of callables with an
\* equal state), their deferred results settling in any order.
NextOverlap ==
    \/ Implement(Latest(MaxCallables), {"sumAsync"})
    \/ Output(Latest(MaxCallables), {"addA"})
    \/ After(Latest(MaxCallables), AfterEffects)
    \/ Start(Overlapping, {Obj(EmptyObj), Obj(MkObj([a |-> Num(5), b |-> Num(10)]))})
    \/ Finish

SpecOverlap == InitSum /\ [][NextOverlap]_vars

\* A fluent chain of before, defaults, enforce, input and zProps calls on the
\* sum, the hooks logging, returning a value or throwing, and any callable of
\* the chain invoked with any input.
NextBefore ==
    \/ Before(Latest(MaxChain), BeforeEffects \cup OtherBeforeEffects)
    \/ Defaults(Latest(MaxChain), {"b2"})
    \/ Enforce(Latest(MaxChain), {"b100"})
    \/ Input(Latest(MaxChain), {"incA"})
    \/ ZProps(Latest(MaxChain), PropsSchemas)
    \/ Invoke(Constructed, Inputs)

SpecBefore == InitSum /\ [][NextBefore]_vars

\* A fluent chain of after, output, zProps, zResult, toAsync and toVoid calls
\* on the sum, the hooks logging, returning a value or throwing, and any
\* callable of the chain invoked with any input.
NextAfter ==
    \/ After(Latest(MaxChain), AfterEffects \cup OtherAfterEffects)
    \/ Output(Latest(MaxChain), {"dbl"})
    \/ ZProps(Latest(MaxChain), PropsSchemas)
    \/ ZResult(Latest(MaxChain), ResultSchemas)
    \/ ToAsync(Latest(MaxChain))
    \/ ToVoid(Latest(MaxChain))
    \/ Invoke(Constructed, Inputs)
    \/ Settle

SpecAfter == InitSum /\ [][NextAfter]_vars

\* the callables whose core logic pipe built
PipedNow == {i \in Constructed : callables[i].implementation.k = "piped"}

\* A fluent chain of configuring calls and pipe calls on the sum, next being a
\* plain function or the sum itself, and any callable of the chain that runs a
\* pipe invoked.
NextPiped ==
    \/ Defaults(Latest(MaxChain), {"b2"})
    \/ Enforce(Latest(MaxChain), {"b100"})
    \/ Input(Latest(MaxChain), {"incA"})
    \/ Output(Latest(MaxChain), {"dbl"})
    \/ Before(Latest(MaxChain), BeforeEffects)
    \/ After(Latest(MaxChain), AfterEffects)
    \/ ZProps(Latest(MaxChain), PropsSchemas)
    \/ ZResult(Latest(MaxChain), ResultSchemas)
    \/ ToAsync(Latest(MaxChain))
    \/ ToVoid(Latest(MaxChain))
    \/ Pipe(Latest(MaxChain), {n \in NextArgs : n.k = "fn" \/ n.ref = 1})
    \/ Invoke(PipedNow, {Obj(EmptyObj), Obj(MkObj([a |-> Num(5), b |-> Num(10)]))})
    \/ Settle

SpecPiped == InitSum /\ [][NextPiped]_vars

\* A fluent chain of addon, void and async calls on the factory's callable,
\* and the callable made last invoked.
NextAddons ==
    \/ BpAddon(LatestObject, Addons)
    \/ BpVoid(LatestBelow(MaxCallables))
    \/ BpAsync(LatestBelow(MaxCallables))
    \/ BpInvoke(LatestObject, {Obj(MkObj([a |-> Num(5), b |-> Num(10)]))})

SpecAddons == InitAddon /\ [][NextAddons]_vars

\* Callables derived with enforce, defaults, async and void from the factory's
\* callable or from the one derived last, implement called on any of them
\* before or after, and any of them invoked.
NextLate ==
    \/ BpImplement(Objects, {"sum", "getA"})
    \/ BpEnforce(ObjectsBelow(MaxCallables), {"b100"})
    \/ BpDefaults(ObjectsBelow(MaxCallables), {"b2"})
    \/ BpAsync(ObjectsBelow(MaxCallables))
    \/ BpVoid(ObjectsBelow(MaxCallables))
    \/ BpInvoke(1..Len(objects), {Obj(EmptyObj), Obj(MkObj([a |-> Num(5), b |-> Num(10)]))})

SpecLate == InitAddon /\ [][NextLate]_vars

\* the factory's callable, until hook is called on it
Unhooked == IF Hooked = {} THEN {1} ELSE {}

\* what trigger is passed: nothing, a record, or the number 0
Overrides == {None, Some(Obj(MkObj([a |-> Num(1), b |-> Num(2)]))), Some(Num(0))}

\* The factory's callable implemented, hooked and rendered with a bound input;
\* trigger called with and without an override, the calls overlapping and
\* settling in any order.
NextHook ==
    \/ BpImplement(Unhooked, {"sumAsync", "fail", "failAsync"})
    \/ Hook(Unhooked)
    \/ UseBlueprint(Hooked, {Obj(MkObj([a |-> Num(5), b |-> Num(10)])), Num(7)})
    \/ Trigger(Overrides)
    \/ TriggerSettles

SpecHook == InitAddon /\ [][NextHook]_vars

\* The factory's callable hooked and rendered with a bound input, its core
\* logic replaced between triggers so that calls of one hook fail and
\* succeed in any order, overlapping or one after the other.
NextRetrigger ==
    \/ BpImplement({1}, {"sumAsync", "failAsync"})
    \/ Hook(Unhooked)
    \/ UseBlueprint(Hooked, {Obj(MkObj([a |-> Num(5), b |-> Num(10)]))})
    \/ Trigger({None, Some(Obj(MkObj([a |-> Num(1), b |-> Num(2)])))})
    \/ TriggerSettles

SpecRetrigger == InitAddon /\ [][NextRetrigger]_vars

\* A fluent chain of defaults calls on the sum, static and function providers
\* in any order, and any callable of the chain invoked with any input.
NextDefaults ==
    \/ Defaults(Latest(MaxChain), DefaultArgs \cup OtherDefaultArgs)
    \/ Invoke(Constructed, Inputs)

SpecDefaults == InitSum /\ [][NextDefaults]_vars

\* Every state-deriving chain method but pipe, on the base (a template, with
\* or without core logic, key and description) or on the callable constructed
\* last, and the callable constructed last invoked.
NextFrame ==
    \/ Implement(Anyone(MaxCallables), {"sum"})
    \/ Input(Anyone(MaxCallables), {"incA"})
    \/ Defaults(Anyone(MaxCallables), {"b2"})
    \/ Enforce(Anyone(MaxCallables), EnforceArgs)
    \/ Output(Anyone(MaxCallables), {"dbl"})
    \/ Before(Anyone(MaxCallables), BeforeEffects)
    \/ After(Anyone(MaxCallables), AfterEffects)
    \/ ToAsync(Anyone(MaxCallables))
    \/ ToVoid(Anyone(MaxCallables))
    \/ ZProps(Anyone(MaxCallables), PropsSchemas)
    \/ ZResult(Anyone(MaxCallables), ResultSchemas)
    \/ Invoke({Len(callables)}, {Obj(MkObj([a |-> Num(5), b |-> Num(10)]))})
    \/ Settle

SpecFrame == Init /\ [][NextFrame]_vars

\* from called with any function and key array, and any callable it returned
\* invoked with any record, with undefined or with a number.
NextFrom ==
    \/ From(PositionalFns, KeyArrays)
    \/ Invoke(FromMade, Records \cup {Undef, Num(7)})

SpecFrom == InitSum /\ [][NextFrom]_vars

\* A fluent chain of all twelve state-deriving chain methods, pipe included,
\* on a base with or without core logic.
NextFlags ==
    \/ Implement(Latest(MaxChain), {"sumAsync"})
    \/ Input(Latest(MaxChain), {"incA"})
    \/ Defaults(Latest(MaxChain), {"b2"})
    \/ Enforce(Latest(MaxChain), {"b100"})
    \/ Output(Latest(MaxChain), {"dbl"})
    \/ Before(Latest(MaxChain), BeforeEffects)
    \/ After(Latest(MaxChain), AfterEffects)
    \/ ToAsync(Latest(MaxChain))
    \/ ToVoid(Latest(MaxChain))
    \/ ZProps(Latest(MaxChain), PropsSchemas)
    \/ ZResult(Latest(MaxChain), ResultSchemas)
    \/ Pipe(Latest(MaxChain), NextArgs)

SpecFlags == Init /\ [][NextFlags]_vars

\* blueprint() and blueprint({key, description}): no core logic
InitBare ==
    /\ Init
    /\ callables[1].implementation = NoImplementation

\* A fluent chain of defaults, enforce, input, zProps and before calls on a
\* pipeline that is never implemented, mappers and hooks that throw among
\* them, and any callable of the chain invoked with any input.
NextBare ==
    \/ Defaults(Latest(MaxChain), {"b2"})
    \/ Enforce(Latest(MaxChain), {"b100"})
    \/ Input(Latest(MaxChain), {"incA"} \cup FailingInputTransforms)
    \/ ZProps(Latest(MaxChain), PropsSchemas)
    \/ Before(Latest(MaxChain), BeforeEffects \cup {"failB"})
    \/ Invoke(Constructed, Inputs)

SpecBare == InitBare /\ [][NextBare]_vars

\* A fluent chain of toAsync and of the calls that configure a stage that can
\* fail (a provider, mapper, hook or core logic that throws, core logic whose
\* deferred result rejects, validators), on a base with or without core logic,
\* and the callable constructed last invoked.
NextSync ==
    \/ ToAsync(Latest(MaxChain))
    \/ Implement(Latest(MaxChain), {"fail", "failAsync"})
    \/ Defaults(Latest(MaxChain), FailingDefaultArgs)
    \/ Input(Latest(MaxChain), FailingInputTransforms)
    \/ ZProps(Latest(MaxChain), PropsSchemas)
    \/ Before(Latest(MaxChain), {"failB"})
    \/ Output(Latest(MaxChain), FailingOutputTransforms)
    \/ ZResult(Latest(MaxChain), ResultSchemas)
    \/ After(Latest(MaxChain), {"failA"})
    \/ Invoke({Len(callables)}, {Obj(EmptyObj), Obj(MkObj([a |-> Num(5), b |-> Num(10)]))})
    \/ Settle

SpecSync == Init /\ [][NextSync]_vars

\* A fluent chain of enforce, input, defaults, zProps and before calls on the
\* sum, mappers that change or drop enforced keys among them, and any callable
\* of the chain invoked with any input.
NextEnforce ==
    \/ Enforce(Latest(MaxChain), EnforceArgs)
    \/ Input(Latest(MaxChain), {"incA"} \cup OtherInputTransforms)
    \/ Defaults(Latest(MaxChain), {"b2"})
    \/ ZProps(Latest(MaxChain), OtherPropsSchemas)
    \/ Before(Latest(MaxChain), BeforeEffects)
    \/ Invoke(Constructed, Inputs)

SpecEnforce == InitSum /\ [][NextEnforce]_vars

\* Bundles attached to the factory's callable or to the one derived last,
\* callables derived from it with enforce, defaults, returning, async, void and
\* the network bundle's request, and the callable made last invoked.
NextMod ==
    \/ BpAddon(LatestObject, {"soonAddon"} \cup OtherAddons)
    \/ BpEnforce(LatestBelow(MaxCallables), {"b100"})
    \/ BpDefaults(LatestBelow(MaxCallables), {"b2"})
    \/ BpReturning(LatestBelow(MaxCallables))
    \/ BpAsync(LatestBelow(MaxCallables))
    \/ BpVoid(LatestBelow(MaxCallables))
    \/ BpRequest(LatestBelow(MaxCallables))
    \/ BpInvoke(LatestObject, {Obj(MkObj([a |-> Num(5), b |-> Num(10)]))})

SpecMod == InitAddon /\ [][NextMod]_vars

\* ------------------------------------------------------------------ claims

\* the invocation last made has run to its end without failing
Completed ==
    \/ last.phase = "done" /\ last.kind = "return"
    \/ last.phase = "settled" /\ last.v.settle = "resolved"

\* the value the last invocation ended with: returned, or resolved to
FinalValue == IF last.phase = "settled" THEN last.v.v ELSE last.v

\* the events of the last invocation that are stages of the callable invoked
OwnEvents(s) == SelectSeq(last.ev, LAMBDA e : e.c = last.c /\ e.s = s)

\* C1: the configuration state of a constructed callable never changes. Every
\* step (a chain call or an invocation, in any interleaving) leaves every
\* callable constructed so far in place, with exactly the core logic, mappers,
\* hooks, default providers, enforced values, flags and validators it was
\* constructed with: the receiver of a chain call and every other branch alike.
C1_ConstructedStateNeverChanges ==
    [][ /\ Len(callables') >= Len(callables)
        /\ \A i \in 1..Len(callables) : callables'[i] = callables[i]
      ]_vars

\* two different branches derived from one base, and the base invoked after
C1_Witness ==
    /\ Len(callables) = 3
    /\ Len(derivation[2]) = 1
    /\ Len(derivation[3]) = 1
    /\ callables[2] # callables[3]
    /\ callables[2] # callables[1]
    /\ last.phase = "done"
    /\ last.c = 1

DerivingMethods ==
    { "implement", "input", "defaults", "enforce", "output", "before", "after",
      "toAsync", "toVoid", "zProps", "zResult", "pipe" }

\* C2 (as amended): the callable a state-deriving chain method returns is a new
\* one, never the receiver; mod and more return what the factory returns.
C2_DerivingMethodsReturnNewCallable ==
    /\ lastOp.op \in DerivingMethods =>
          lastOp.ret # lastOp.recv /\ lastOp.ret = Len(callables)
    /\ lastOp.op \in {"mod", "more"} => lastOp.ret \in 1..Len(callables)

\* C2 as stated: every chain method, mod and more included, returns a callable
\* other than the receiver.
C2_EveryMethodReturnsNewCallable ==
    lastOp.op \in DerivingMethods \cup {"mod", "more"} => lastOp.ret # lastOp.recv

\* toAsync on a callable that is async already: the same state, a new callable
C2_Witness ==
    /\ lastOp.op = "toAsync"
    /\ callables[lastOp.recv].isAsync
    /\ callables[lastOp.ret] = callables[lastOp.recv]
    /\ lastOp.ret # lastOp.recv

\* the stages of the callable invoked, in the order they ran (what the core
\* logic of a piped callable runs inside is not a stage of its own)
StagesRun ==
    LET own == SelectSeq(last.ev, LAMBDA e : e.c = last.c /\ e.s # "next")
    IN  [j \in 1..Len(own) |-> own[j].s]

Repeat(s, n) == [j \in 1..n |-> s]

\* the twelve stages in the order claimed, for configuration st
StagesClaimed(st) ==
    <<"defaults", "merge", "enforce">>
    \o Repeat("inputMap", Len(st.inputMappers))
    \o (IF st.validateProps /\ st.propsSchema # None THEN <<"validateProps">> ELSE <<>>)
    \o Repeat("before", Len(st.beforeHooks))
    \o <<"core", "async">>
    \o Repeat("outputMap", Len(st.outputMappers))
    \o (IF st.validateResults /\ st.resultSchema # None THEN <<"validateResult">> ELSE <<>>)
    \o Repeat("after", Len(st.afterHooks))
    \o <<"void">>

UnimplementedMessage(key) ==
    IF Truthy(key) THEN "Blueprint '" \o key[1] \o "' has not been implemented."
    ELSE "Blueprint has not been implemented."

\* the invocation last made was of a callable whose state has no core logic
InvokedUnimplemented ==
    /\ last.phase # "none"
    /\ callables[last.c].implementation = NoImplementation

\* the errors input validation raised during the last invocation
PropsRejected ==
    SelectSeq(last.ev, LAMBDA e : e.c = last.c /\ e.s = "validateProps" /\ e.out.t = "error")

\* C10 (as amended): invoking a callable whose state has no core logic never
\* returns a value; it fails with the unimplemented-pipeline error, whose
\* message names the key when one is set, unless input validation is enabled
\* and rejects the input first, and then it fails with the validator's error.
C10_UnimplementedFailsUnlessRejectedFirst ==
    InvokedUnimplemented =>
        /\ last.kind = "throw"
        /\ last.phase = "done"
        /\ IF PropsRejected # <<>> THEN last.v = PropsRejected[1].out
           ELSE last.v = Err("Error", UnimplementedMessage(callables[last.c].key))

\* C10 as stated: invoking a callable whose state has no core logic always
\* fails with the unimplemented-pipeline error.
C10_UnimplementedAlwaysFailsUnimplemented ==
    InvokedUnimplemented =>
        /\ last.kind = "throw"
        /\ last.v = Err("Error", UnimplementedMessage(callables[last.c].key))

\* a keyed callable without core logic took chain methods and was invoked with {}
C10_Witness ==
    /\ InvokedUnimplemented
    /\ Len(derivation[last.c]) >= 1
    /\ last.x = Obj(EmptyObj)
    /\ Truthy(callables[last.c].key)
    /\ last.v = Err("Error", "Blueprint 'k' has not been implemented.")

\* the arguments of the op calls that built the callable invoked, in call order
ArgsOf(op) ==
    LET steps == SelectSeq(derivation[last.c], LAMBDA d : d.op = op)
    IN  [j \in 1..Len(steps) |-> steps[j].arg]

\* the record core logic was handed in the last invocation
CoreInput == OwnEvents("core")[1].arg.o

Keys == {"a", "b", "props"}

Last(S) == CHOOSE j \in S : \A k \in S : k <= j

\* the enforce calls, in call order, whose record has key k
EnforcersOf(k) == {j \in 1..Len(ArgsOf("enforce")) : k \in DOMAIN EnforcedOf(ArgsOf("enforce")[j])}

\* C4: with defaults and enforce calls only, core logic receives every
\* enforced key with the enforced value (the latest enforce call winning),
\* whatever the caller or a default provider supplies for it; the sum with
\* defaults {b: 2} and enforce {b: 100}, invoked with {a: 5, b: 10}, is 105.
C4_EnforcedKeysWin ==
    ( /\ last.phase # "none"
      /\ callables[last.c].inputMappers = <<>>
      /\ ~callables[last.c].validateProps )
    => /\ \A k \in Keys :
             EnforcersOf(k) # {} =>
                /\ k \in DOMAIN CoreInput
                /\ CoreInput[k] = EnforcedOf(ArgsOf("enforce")[Last(EnforcersOf(k))])[k]
       /\ ( /\ derivation[last.c] = <<Step("defaults", "b2"), Step("enforce", "b100")>>
            /\ last.x = Obj(MkObj([a |-> Num(5), b |-> Num(10)])) )
          => last.v = Num(105)

\* the caller and a default supply b, two enforce calls disagree on b
C4_Witness ==
    /\ last.phase = "done"
    /\ derivation[last.c] = <<Step("defaults", "b2"), Step("enforce", "a1b50"), Step("enforce", "b100")>>
    /\ last.x = Obj(MkObj([a |-> Num(5), b |-> Num(10)]))
    /\ last.v = Num(101)

\* the props after default application in the last invocation
Merged == OwnEvents("merge")[1].out.o

\* the defaults calls, in call order, whose provider supplies key k for the
\* caller input of the last invocation
ProvidersOf(k) ==
    {j \in 1..Len(ArgsOf("defaults")) : k \in DOMAIN ApplyProvider(ArgsOf("defaults")[j], last.x)}

\* C5: for an object caller input, after default application each key holds
\* the caller's value when the caller's record has the key, otherwise the
\* resolved default when some provider supplies it, and is absent otherwise;
\* the sum with defaults {b: 2} is 7 for {a: 5} and 15 for {a: 5, b: 10}.
C5_CallerWinsOverDefaults ==
    (last.phase # "none" /\ last.x.t = "obj")
    => /\ \A k \in Keys :
             IF k \in DOMAIN last.x.o
             THEN k \in DOMAIN Merged /\ Merged[k] = last.x.o[k]
             ELSE IF ProvidersOf(k) # {}
             THEN /\ k \in DOMAIN Merged
                  /\ Merged[k] = ApplyProvider(ArgsOf("defaults")[Last(ProvidersOf(k))], last.x)[k]
             ELSE k \notin DOMAIN Merged
       /\ derivation[last.c] = <<Step("defaults", "b2")>> =>
             /\ last.x = Obj(MkObj([a |-> Num(5)])) => last.v = Num(7)
             /\ last.x = Obj(MkObj([a |-> Num(5), b |-> Num(10)])) => last.v = Num(15)

\* the caller and the default both supply b
C5_Witness ==
    /\ last.phase = "done"
    /\ derivation[last.c] = <<Step("defaults", "b2")>>
    /\ last.x = Obj(MkObj([a |-> Num(5), b |-> Num(10)]))
    /\ last.v = Num(15)

RECURSIVE ComposeInputs(_, _)
\* t1(...(tn(p))) for ts = <<t1, ..., tn>>
ComposeInputs(ts, p) ==
    IF ts = <<>> THEN p ELSE ApplyInput(Head(ts), ComposeInputs(Tail(ts), p))

Reverse(q) == [j \in 1..Len(q) |-> q[Len(q) + 1 - j]]

RECURSIVE ComposeOutputs(_, _, _)
\* on(...o1(r, v)..., v) for os = <<o1, ..., on>>
ComposeOutputs(os, r, v) ==
    IF os = <<>> THEN r ELSE ComposeOutputs(Tail(os), ApplyOutput(Head(os), r, v), v)

\* what core logic returned in the last invocation, resolved when deferred
CoreResult ==
    LET r == OwnEvents("async")[1].out IN IF IsPromise(r) THEN r.v ELSE r

\* C7: for output transforms o1..on added in that order, an invocation applies
\* o1 first and on last, each on the running result and the validated input
\* core logic was handed (not the raw caller input), and the result the
\* invocation ends with is on(...o1(coreResult, v)..., v).
C7_OutputsRunInAddOrder ==
    Completed =>
        LET os == ArgsOf("output")
            ran == OwnEvents("outputMap")
        IN  /\ [j \in 1..Len(ran) |-> ran[j].f] = os
            /\ \A j \in 1..Len(ran) :
                  /\ ran[j].p = Obj(CoreInput)
                  /\ ran[j].arg = IF j = 1 THEN CoreResult ELSE ran[j - 1].out
            /\ FinalValue = ComposeOutputs(os, CoreResult, CoreInput)

\* the input mapper makes a 6, the sum 16, doubled 32, plus the mapped a: 38
C7_Witness ==
    /\ Completed
    /\ derivation[last.c] = <<Step("input", "incA"), Step("output", "dbl"), Step("output", "addA")>>
    /\ last.x = Obj(MkObj([a |-> Num(5), b |-> Num(10)]))
    /\ FinalValue = Num(38)

\* every mapper and hook of the callable invoked, and its core logic, ran
AllRan ==
    LET st == callables[last.c]
    IN  /\ Len(OwnEvents("inputMap")) = Len(st.inputMappers)
        /\ Len(OwnEvents("before")) = Len(st.beforeHooks)
        /\ Len(OwnEvents("core")) = 1
        /\ Len(OwnEvents("outputMap")) = Len(st.outputMappers)
        /\ Len(OwnEvents("after")) = Len(st.afterHooks)

\* the last invocation returned to its caller, and what it returned has not failed
Returned ==
    /\ last.phase # "none"
    /\ last.kind = "return"
    /\ IsPromise(last.v) => last.v.settle = "resolved"

Outcome(c) ==
    IF c.kind = "throw" THEN <<"throw", c.v>>
    ELSE IF IsPromise(c.v) THEN <<"deferred", c.v.settle, c.v.v>>
    ELSE <<"value", c.v>>

\* the outcome of a deferred value that settles as completion c ends
Deferring(c) ==
    IF c.kind = "throw" THEN <<"deferred", "rejected", c.v>>
    ELSE IF IsPromise(c.v) THEN <<"deferred", c.v.settle, c.v.v>>
    ELSE <<"deferred", "resolved", c.v>>

\* the last invocation was of P.pipe(next), nothing chained behind the pipe
InvokedPiped ==
    /\ last.phase # "none"
    /\ callables[last.c].implementation.k = "piped"
    /\ derivation[last.c] = <<Step("pipe", "")>>

\* C9: P.pipe(next)(x) is next(P(x)) when P(x) is not deferred, and a deferred
\* value resolving to next applied to what P(x) resolves to when P(x) is
\* deferred, for every P (void and async ones included), next and x.
C9_PipeIsNextAfterP ==
    InvokedPiped =>
        LET impl == callables[last.c].implementation
            px == Call(callables, impl.left, last.x)
        IN  /\ (px.kind = "return" /\ ~IsPromise(px.v)) =>
                  Outcome(last) = Outcome(ExecuteNext(callables, last.c, impl.next, px.v))
            /\ (px.kind = "return" /\ IsPromise(px.v) /\ px.v.settle = "resolved") =>
                  Outcome(last) = Deferring(ExecuteNext(callables, last.c, impl.next, px.v.v))

\* the last invocation has run as far as it goes: to its return or throw, and
\* to the settling of the deferred value it returned
RanOut == last.phase \in {"done", "settled"}

\* how many events of the stages in S the callable invoked has run
Ran(S) == Len(SelectSeq(last.ev, LAMBDA e : e.c = last.c /\ e.s \in S))

\* the input validator was handed a mapped input it rejects
RejectsProps ==
    /\ last.phase # "none"
    /\ Ran({"validateProps"}) = 1
    /\ ParseProps(callables[last.c].propsSchema[1], OwnEvents("validateProps")[1].arg).kind = "throw"

\* C11: when the attached, enabled input validator rejects the mapped input,
\* the invocation fails with the validator's own error and no later stage
\* runs: no before hook, no core logic, no output mapper, no result validation,
\* no after hook.
C11_RejectedPropsStopTheInvocation ==
    RejectsProps =>
        /\ last.kind = "throw"
        /\ last.phase = "done"
        /\ last.v = ParseProps(callables[last.c].propsSchema[1],
                               OwnEvents("validateProps")[1].arg).v
        /\ Ran({"before", "core", "async", "outputMap", "validateResult", "after", "void"}) = 0

\* a callable with a before hook, an after hook and a validator that wants a
\* numeric a was invoked with {}
C11_Witness ==
    /\ RejectsProps
    /\ last.x = Obj(EmptyObj)
    /\ Len(callables[last.c].beforeHooks) = 1
    /\ Len(callables[last.c].afterHooks) = 1
    /\ last.v = Err("ZodError", "props")

\* the result validator was handed an output-mapped result it rejects
RejectsResult ==
    /\ RanOut
    /\ Ran({"validateResult"}) = 1
    /\ ParseResult(callables[last.c].resultSchema[1], OwnEvents("validateResult")[1].arg).kind = "throw"

AsyncCoreReturned ==
    /\ last.phase # "none"
    /\ callables[last.c].isAsync
    /\ Ran({"async"}) = 1

\* the result the stages behind core logic make of r for validated input v
Finalized(st, r, v) ==
    LET mapped == ComposeOutputs(st.outputMappers, r, v)
    IN  IF st.validateResults /\ ParseResult(st.resultSchema[1], mapped).kind = "throw"
        THEN <<"rejected", ParseResult(st.resultSchema[1], mapped).v>>
        ELSE <<"resolved", IF st.isVoid THEN Undef ELSE mapped>>

\* C13: whenever the core logic of an async callable returns normally, with
\* any value, falsy ones included, the invocation returns a deferred value that
\* resolves to the final output-mapped, validated result; a core result that is
\* deferred already is passed through as it is, not wrapped a second time.
C13_AsyncReturnsDeferred ==
    AsyncCoreReturned =>
        LET core == OwnEvents("core")[1].out
            st == callables[last.c]
        IN  /\ last.kind = "return"
            /\ IsPromise(last.v)
            /\ ~IsPromise(last.v.v)
            /\ IsPromise(core) => OwnEvents("async")[1].out = core
            /\ ~IsPromise(core) => OwnEvents("async")[1].out = PromiseResolve(core)
            /\ (IsPromise(core) => core.settle = "resolved") =>
                  <<last.v.settle, last.v.v>> = Finalized(st, CoreResult, CoreInput)

\* input => input.a on {} returns undefined, which is wrapped and doubled
C13_Witness ==
    /\ AsyncCoreReturned
    /\ last.phase = "settled"
    /\ OwnEvents("core")[1].out = Undef
    /\ Len(callables[last.c].outputMappers) = 1
    /\ last.v.v = NaN

\* the deferred value the core logic of the last invocation returned rejects
CoreRejects ==
    /\ last.phase # "none"
    /\ Ran({"core"}) = 1
    /\ IsPromise(OwnEvents("core")[1].out)
    /\ OwnEvents("core")[1].out.settle = "rejected"

\* C14: when the deferred result of core logic rejects, no output mapper, no
\* result validation and no after hook runs, void collapse does not turn the
\* failure into a value, and the deferred value returned rejects with the same
\* failure.
C14_RejectionPropagates ==
    CoreRejects =>
        /\ Outcome(last) = <<"deferred", "rejected", OwnEvents("core")[1].out.v>>
        /\ Ran({"outputMap", "validateResult", "after", "void"}) = 0

\* a void callable with an after hook, its core logic rejecting, has settled
C14_Witness ==
    /\ CoreRejects
    /\ last.phase = "settled"
    /\ callables[last.c].isVoid
    /\ Len(callables[last.c].afterHooks) = 1
    /\ last.v.v = Boom

\* the last invocation was of a piped callable and got as far as its core logic
PipedCoreRan ==
    /\ last.phase # "none"
    /\ callables[last.c].implementation.k = "piped"
    /\ Ran({"core"}) = 1

\* P(v) for the left-hand side P of the piped callable and the props v its
\* core logic was handed
LeftAlone == Call(callables, callables[last.c].implementation.left, OwnEvents("core")[1].arg)

\* every event of a completion, those behind its deferred value included
EventsOf(c) == IF c.kind = "return" /\ IsPromise(c.v) THEN c.ev \o c.v.post ELSE c.ev

\* how many of the events ev start a run of next: the call of the plain
\* function, or the first stage of the blueprint
StartsOfNext(ev) ==
    LET nxt == callables[last.c].implementation.next
    IN  Len(SelectSeq(ev, LAMBDA e :
            IF nxt.k = "fn" THEN e.c = last.c /\ e.s = "next"
            ELSE e.c = nxt.ref /\ e.s = "defaults"))

\* how often next ran in the last invocation, P's own events set aside
NextRuns == StartsOfNext(last.ev) - StartsOfNext(EventsOf(LeftAlone))

\* C15: in P.pipe(next), when the invocation of P fails, by throwing or by its
\* deferred result rejecting, next is never invoked and the caller of the piped
\* callable gets the same failure, thrown or as a rejection; next runs at most
\* once, and only after P has produced a value.
C15_FailureOfLeftSkipsNext ==
    PipedCoreRan =>
        LET px == LeftAlone
        IN  /\ px.kind = "throw" =>
                  Outcome(last) = <<"throw", px.v>> /\ NextRuns = 0
            /\ (px.kind = "return" /\ IsPromise(px.v) /\ px.v.settle = "rejected") =>
                  /\ Outcome(last) = <<"deferred", "rejected", px.v.v>>
                  /\ RanOut => NextRuns = 0
            /\ RanOut =>
                  /\ NextRuns \in {0, 1}
                  /\ NextRuns = 1 =>
                        /\ px.kind = "return"
                        /\ IsPromise(px.v) => px.v.settle = "resolved"

\* P's deferred result rejected, the piped callable's rejected with it, and
\* the plain function behind it was not called
C15_Witness ==
    /\ PipedCoreRan
    /\ last.phase = "settled"
    /\ callables[last.c].implementation.next.k = "fn"
    /\ LeftAlone.kind = "return"
    /\ Outcome(last) = <<"deferred", "rejected", Boom>>
    /\ NextRuns = 0

\* the invocations that have run as far as they go
Finished == {k \in 1..Len(inflight) : inflight[k].phase \in {"done", "settled"}}

\* the k-th overlapping invocation, had it run alone
Alone(k) == Call(callables, inflight[k].c, inflight[k].x)

\* C16: for overlapping invocations of one callable whose core logic returns
\* deferred values, in whatever order these settle, the output mappers and
\* after hooks of each invocation get that invocation's own validated input and
\* own result, and each invocation returns what it would return alone.
C16_OverlappingInvocationsDoNotInterfere ==
    \A k \in Finished :
        LET own == inflight[k]
        IN  /\ Outcome(own) = Outcome(Alone(k))
            /\ own.ev = EventsOf(Alone(k))
            /\ \A j \in 1..Len(own.ev) :
                  (own.ev[j].c = own.c /\ own.ev[j].s \in {"outputMap", "after"}) =>
                      own.ev[j].p = StageOf(own.ev, own.c, "core").arg

\* two invocations of one callable with different inputs overlapped, and the
\* one started second settled first
C16_Witness ==
    /\ Len(inflight) >= 2
    /\ inflight[1].c = inflight[2].c
    /\ inflight[1].x # inflight[2].x
    /\ inflight[1].phase = "pending"
    /\ inflight[2].phase = "settled"
    /\ Len(callables[inflight[2].c].outputMappers) = 1
    /\ inflight[2].v.v = Num(20)

PrimitiveToPlain ==
    /\ last.phase # "none"
    /\ last.x.t \notin {"obj", "undef"}
    /\ callables[last.c].defaultProviders = <<>>
    /\ callables[last.c].enforcedValues = EmptyObj
    /\ callables[last.c].inputMappers = <<>>

\* C18: a callable with no default providers, no enforced values and no input
\* mappers, invoked with a primitive v, hands v itself, not wrapped into a
\* record, to the validator, the before hooks and core logic; with any of
\* those configured the primitive is coerced into a record.
C18_PrimitivePassesThrough ==
    (last.phase # "none" /\ last.x.t \notin {"obj", "undef"}) =>
        \A j \in 1..Len(last.ev) :
            (last.ev[j].c = last.c /\ last.ev[j].s \in {"validateProps", "before", "core"})
            => IF PrimitiveToPlain THEN last.ev[j].arg = last.x
               ELSE last.ev[j].arg.t = "obj"

\* the state of the callable invoked
Invoked == callables[last.c]

\* the last invocation got as far as the stages behind core logic
ResultStagesRan ==
    /\ RanOut
    /\ Ran({"async"}) = 1
    /\ IsPromise(OwnEvents("async")[1].out) => OwnEvents("async")[1].out.settle = "resolved"

\* C19: validation of an axis runs in an invocation exactly when the state
\* holds a validator for the axis and the axis's flag; of two validators
\* attached to one axis only the second is called, and the validator of the
\* other axis stays as it was.
C19_ValidationRunsWhenAttachedLastWins ==
    last.phase # "none" =>
        /\ Ran({"validateProps"}) =
              IF Invoked.validateProps /\ Invoked.propsSchema # None THEN 1 ELSE 0
        /\ Ran({"validateProps"}) = 1 =>
              /\ ArgsOf("zProps") # <<>>
              /\ OwnEvents("validateProps")[1].f = ArgsOf("zProps")[Len(ArgsOf("zProps"))]
        /\ Ran({"validateResult"}) =
              IF ResultStagesRan /\ Invoked.validateResults /\ Invoked.resultSchema # None
              THEN 1 ELSE 0
        /\ Ran({"validateResult"}) = 1 =>
              /\ ArgsOf("zResult") # <<>>
              /\ OwnEvents("validateResult")[1].f = ArgsOf("zResult")[Len(ArgsOf("zResult"))]

\* a validator wanting a, then one wanting a and b, then a result validator:
\* {a: 5} is rejected by the second, which the first would have accepted
C19_Witness ==
    /\ last.phase = "done"
    /\ ArgsOf("zProps") = <<"reqA", "reqAB">>
    /\ ArgsOf("zResult") = <<"num">>
    /\ last.x = Obj(MkObj([a |-> Num(5)]))
    /\ last.v = Err("ZodError", "props a b")

\* C20: in every callable the factory and the chain methods construct, the
\* input validation flag is on exactly when an input validator is attached,
\* and the result flag exactly when a result validator is; both are off and
\* absent in the factory's callable and in a piped one, and attaching a
\* validator sets the pair.
C20_FlagOnExactlyWhenValidatorAttached ==
    \A i \in Constructed :
        /\ callables[i].validateProps <=> callables[i].propsSchema # None
        /\ callables[i].validateResults <=> callables[i].resultSchema # None
        /\ (i = 1 \/ derivation[i] = <<Step("pipe", "")>>) =>
              ~callables[i].validateProps /\ ~callables[i].validateResults
        /\ (lastOp.op = "zProps" /\ lastOp.ret = i) =>
              callables[i].validateProps /\ callables[i].propsSchema # None
        /\ (lastOp.op = "zResult" /\ lastOp.ret = i) =>
              callables[i].validateResults /\ callables[i].resultSchema # None

\* a callable with an input validator was piped: the piped one has none
C20_Witness ==
    /\ Len(callables) = 3
    /\ callables[2].validateProps
    /\ callables[2].propsSchema = Some("reqA")
    /\ callables[3].implementation.k = "piped"
    /\ callables[3].implementation.left = 2
    /\ ~callables[3].validateProps
    /\ callables[3].propsSchema = None

\* the defaults the last invocation resolved, and what its providers were handed
Resolved == OwnEvents("defaults")[1].out.o

ProvidersInput == OwnEvents("defaults")[1].arg

\* the defaults calls, in call order, whose provider supplies key k for what
\* the providers were handed
SuppliersOf(k) ==
    {j \in 1..Len(ArgsOf("defaults")) :
        k \in DOMAIN ApplyProvider(ArgsOf("defaults")[j], ProvidersInput)}

\* C26: when several default providers supply the same key, the resolved
\* default for the key is the value of the provider added last, for static and
\* function providers alike; a key no provider supplies has no resolved default.
C26_LastAddedProviderWins ==
    last.phase # "none" =>
        \A k \in Keys :
            IF SuppliersOf(k) # {}
            THEN /\ k \in DOMAIN Resolved
                 /\ Resolved[k] =
                       ApplyProvider(ArgsOf("defaults")[Last(SuppliersOf(k))], ProvidersInput)[k]
            ELSE k \notin DOMAIN Resolved

\* the static {b: 2} added first, the function p => ({b: p.a}) second: 5 + 5
C26_Witness ==
    /\ last.phase = "done"
    /\ derivation[last.c] = <<Step("defaults", "b2"), Step("defaults", "bFromA")>>
    /\ last.x = Obj(MkObj([a |-> Num(5)]))
    /\ Resolved = MkObj([b |-> Num(5)])
    /\ last.v = Num(10)

\* the last invocation was of a callable with at least one input mapper
InvokedMapped ==
    /\ last.phase # "none"
    /\ callables[last.c].inputMappers # <<>>

\* C25: input mappers are applied before defaults, enforcement and validation:
\* the first mapper to run receives the raw caller input, and default
\* application and enforcement work on what the last mapper produced.
C25_InputMappersRunFirst ==
    InvokedMapped =>
        LET ran == OwnEvents("inputMap")
        IN  /\ ran[1].arg = last.x
            /\ OwnEvents("merge")[1].arg = ran[Len(ran)].out
            /\ \A k \in DOMAIN callables[last.c].enforcedValues :
                  CoreInput[k] = callables[last.c].enforcedValues[k]

\* the stages of the callable invoked, in the order they ran, as numbered events
OwnStages == SelectSeq(last.ev, LAMBDA e : e.c = last.c)

\* every event of a stage in S ran ahead of every event of a stage in T
Ahead(S, T) ==
    \A j \in 1..Len(OwnStages) : \A k \in 1..Len(OwnStages) :
        (OwnStages[j].s \in S /\ OwnStages[k].s \in T) => j < k

\* the hooks of a list that are expected to run: those up to the first failing
UpToFirst(hooks, failing) ==
    LET at == {j \in 1..Len(hooks) : hooks[j] = failing}
    IN  IF at = {} THEN hooks
        ELSE SubSeq(hooks, 1, CHOOSE j \in at : \A k \in at : j <= k)

\* the input as validated: what the validator made of the mapped input, or the
\* mapped input when no validator is enabled
ValidatedInput ==
    IF Ran({"validateProps"}) = 1 THEN OwnEvents("validateProps")[1].out
    ELSE Obj(ComposeInputs(ArgsOf("input"), OwnEvents("enforce")[1].out.o))

\* the last invocation got past input validation
PropsAccepted ==
    /\ last.phase # "none"
    /\ PropsRejected = <<>>

\* C28: before hooks run in the order they were added, after input validation
\* and before core logic, each receiving the validated (post-defaults,
\* post-enforcement, post-mapping) input; what they return does not alter the
\* input core logic is handed; when one fails, no later before hook, no core
\* logic and no later stage runs, and the invocation fails with its failure.
C28_BeforeHooksInOrderFailureAborts ==
    PropsAccepted =>
        LET hooks == ArgsOf("before")
            ran == OwnEvents("before")
        IN  /\ [j \in 1..Len(ran) |-> ran[j].f] = UpToFirst(hooks, "failB")
            /\ \A j \in 1..Len(ran) : ran[j].arg = ValidatedInput
            /\ Ahead({"defaults", "merge", "enforce", "inputMap", "validateProps"}, {"before"})
            /\ Ahead({"before"}, {"core"})
            /\ IF \E j \in 1..Len(hooks) : hooks[j] = "failB"
               THEN /\ Outcome(last) = <<"throw", HookBoom>>
                    /\ Ran({"core", "async", "outputMap", "validateResult", "after", "void"}) = 0
               ELSE /\ Ran({"core"}) = 1
                    /\ Obj(CoreInput) = ValidatedInput

\* behind a validator, a hook that throws and then one that logs: the first
\* ran on the validated {a: 5}, the second did not run
C28_Witness ==
    /\ last.phase = "done"
    /\ callables[last.c].validateProps
    /\ ArgsOf("before") = <<"failB", "logB">>
    /\ last.x = Obj(MkObj([a |-> Num(5), b |-> Num(10)]))
    /\ Len(OwnEvents("before")) = 1
    /\ OwnEvents("before")[1].arg = Obj(MkObj([a |-> Num(5)]))
    /\ last.v = HookBoom

\* the result as validated: what output mapping and result validation made of
\* the core result
ValidatedOutput ==
    IF Ran({"validateResult"}) = 1 THEN OwnEvents("validateResult")[1].out
    ELSE ComposeOutputs(ArgsOf("output"), CoreResult, CoreInput)

\* the last invocation got past result validation
ResultAccepted ==
    /\ ResultStagesRan
    /\ Ran({"validateResult"}) = 1 => OwnEvents("validateResult")[1].out.t # "error"

\* C29: after hooks run in the order they were added, after output mapping and
\* result validation, each receiving the final validated result and the
\* validated input; what they return does not alter the result the invocation
\* ends with; when one fails, no later after hook runs and the invocation
\* fails with its failure, thrown or as a rejection.
C29_AfterHooksInOrderFailureFails ==
    ResultAccepted =>
        LET hooks == ArgsOf("after")
            ran == OwnEvents("after")
            deferred == IsPromise(OwnEvents("async")[1].out)
        IN  /\ [j \in 1..Len(ran) |-> ran[j].f] = UpToFirst(hooks, "failA")
            /\ \A j \in 1..Len(ran) :
                  ran[j].arg = ValidatedOutput /\ ran[j].p = Obj(CoreInput)
            /\ Ahead({"core", "async", "outputMap", "validateResult"}, {"after"})
            /\ Ahead({"after"}, {"void"})
            /\ IF \E j \in 1..Len(hooks) : hooks[j] = "failA"
               THEN /\ Outcome(last) = IF deferred THEN <<"deferred", "rejected", HookBoom>>
                                       ELSE <<"throw", HookBoom>>
                    /\ Ran({"void"}) = 0
               ELSE /\ Completed
                    /\ FinalValue = IF callables[last.c].isVoid THEN Undef ELSE ValidatedOutput

\* a hook that returns the result doubled, then one that logs, behind an
\* output mapper: both ran on 30 and the caller got 30
C29_Witness ==
    /\ last.phase = "done"
    /\ derivation[last.c] = <<Step("output", "dbl"), Step("after", "dblR"), Step("after", "logA")>>
    /\ last.x = Obj(MkObj([a |-> Num(5), b |-> Num(10)]))
    /\ Len(OwnEvents("after")) = 2
    /\ OwnEvents("after")[2].arg = Num(30)
    /\ last.v = Num(30)

\* the core logic of the last invocation returned a deferred value
CoreDeferred ==
    /\ last.phase # "none"
    /\ Ran({"core"}) = 1
    /\ IsPromise(OwnEvents("core")[1].out)

\* the stages behind core logic, in the order the last invocation ran them
ResultStages ==
    SelectSeq(StagesRun, LAMBDA x : x \in {"outputMap", "validateResult", "after", "void"})

\* the stages behind core logic for configuration st, in the order claimed
ResultStagesClaimed(st) ==
    Repeat("outputMap", Len(st.outputMappers))
    \o (IF st.validateResults /\ st.resultSchema # None THEN <<"validateResult">> ELSE <<>>)
    \o Repeat("after", Len(st.afterHooks))
    \o <<"void">>

\* C30: when core logic returns a deferred value, the invocation returns a
\* deferred value, and no output mapper, result validator or after hook has
\* run by then, nor before the core's deferred value resolves; once it has
\* resolved, each of them has run exactly once, in order (up to the validator
\* when it rejects), by the time the returned deferred value settles; when the
\* core's deferred value rejects none of them runs.
C30_DeferredStagesRunAfterReturn ==
    CoreDeferred =>
        LET core == OwnEvents("core")[1].out
            claimed == ResultStagesClaimed(callables[last.c])
        IN  /\ last.kind = "return"
            /\ IsPromise(last.v)
            /\ last.phase \in {"pending", "settled"}
            /\ last.phase = "pending" => ResultStages = <<>>
            /\ (last.phase = "settled" /\ core.settle = "resolved") =>
                  IF last.v.settle = "resolved" THEN ResultStages = claimed
                  ELSE /\ Len(ResultStages) < Len(claimed)
                       /\ ResultStages = SubSeq(claimed, 1, Len(ResultStages))
                       /\ ResultStages[Len(ResultStages)] = "validateResult"
            /\ core.settle = "rejected" => ResultStages = <<>>

\* the deferred sum with an output mapper, a validator and an after hook: the
\* invocation returned with none of them run
C30_Witness ==
    /\ CoreDeferred
    /\ last.phase = "pending"
    /\ derivation[last.c] = <<Step("implement", "sumAsync"), Step("output", "dbl"),
                              Step("zResult", "num")>>
    /\ last.x = Obj(MkObj([a |-> Num(5), b |-> Num(10)]))
    /\ last.v.v = Num(30)
    /\ ResultStages = <<>>

\* the callables pipe returned, nothing chained behind the pipe
Piped == {i \in Constructed : derivation[i] = <<Step("pipe", "")>>}

\* the left-hand side P of the piped callable invoked
Left == callables[last.c].implementation.left

\* next does not run P once more: a plain function, or a blueprint other than
\* P that is not piped itself
NextApart ==
    LET nxt == callables[last.c].implementation.next
    IN  nxt.k = "fn" \/ (nxt.ref # Left /\ callables[nxt.ref].implementation.k # "piped")

\* the stages P ran in the last invocation, in order
LeftStages ==
    LET ran == SelectSeq(last.ev, LAMBDA e : e.c = Left /\ e.s # "next")
    IN  [j \in 1..Len(ran) |-> ran[j].s]

AddonFields == UNION {DOMAIN CoreOf(a) : a \in Addons}

\* the addon calls on callable i, in call order, whose bundle defines field n
DefinersOf(i, n) == {j \in 1..Len(attached[i]) : n \in DOMAIN CoreOf(attached[i][j])}

\* C24: after any sequence of addon calls on a callable, a field that several
\* of the attached bundles define, or a bundle and the base interface, carries
\* the implementation of the bundle attached last among those that define it;
\* a field no bundle defines keeps the base interface's value, and one no
\* later bundle defines keeps the earlier bundle's.
C24_LastAttachedBundleWins ==
    \A i \in 1..Len(objects) : \A n \in BaseMethods \cup AddonFields :
        IF DefinersOf(i, n) # {}
        THEN /\ n \in DOMAIN objects[i].fields
             /\ objects[i].fields[n] = CoreOf(attached[i][Last(DefinersOf(i, n))])[n]
        ELSE IF n \in BaseMethods THEN objects[i].fields[n] = "blueprint." \o n
        ELSE n \notin DOMAIN objects[i].fields

\* soonAddon, voidAddon and lateAddon attached in that order: tag is
\* lateAddon's, some still soonAddon's, void voidAddon's, not the base's
C24_Witness ==
    /\ objects # <<>>
    /\ attached[1] = <<"soonAddon", "voidAddon", "lateAddon">>
    /\ objects[1].fields["tag"] = "lateAddon.tag"
    /\ objects[1].fields["some"] = "soonAddon.some"
    /\ objects[1].fields["void"] = "voidAddon.void"
    /\ objects[1].fields["implement"] = "blueprint.implement"

\* C22: addon(bundle) merges the bundle's fields onto a copy of the callable:
\* after the call the receiver's own fields and its addons list are as they
\* were, and the bundle's fields and the extended addons list are on the
\* value returned, which is not the receiver.
C22_AddonLeavesReceiverAsItWas ==
    addonOp.op = "addon" =>
        LET was == addonOp.heap[addonOp.recv]
            returned == objects[addonOp.ret]
        IN  /\ addonOp.ret # addonOp.recv
            /\ objects[addonOp.recv].fields = was.fields
            /\ objects[addonOp.recv].addons = was.addons
            /\ returned.fields = Spread(was.fields, CoreOf(addonOp.arg))
            /\ returned.addons = Append(was.addons, addonOp.arg)

\* the inputs the callables of the addon-capable engine are compared on
ProbeInputs == {Obj(EmptyObj), Obj(MkObj([a |-> Num(5), b |-> Num(10)]))}

\* C23: implement(logic) of the addon-capable engine returns a new callable
\* that runs the new core logic, and the receiver and every callable that
\* existed before the call (those derived from the receiver through enforce,
\* defaults, async and void among them) run as they did before it.
C23_ImplementLeavesReceiverAndDerived ==
    addonOp.op = "implement" =>
        /\ addonOp.ret # addonOp.recv
        /\ objects[addonOp.ret].implementation = CoreFn(addonOp.arg)
        /\ \A j \in 1..Len(addonOp.heap) : \A x \in ProbeInputs :
              Run(objects, j, x) = Run(addonOp.heap, j, x)

\* the override when one is passed, the bound input otherwise
ChosenIfPassed(overwrite, props) == IF overwrite # None THEN overwrite[1] ELSE props

\* the trigger call that started or settled last
Acted == ui.calls[ui.at]

\* loading is true from the start of the trigger call that acted last and
\* false once its pipeline call has settled; the result is stored and
\* returned on success, the failure stored on failure, and trigger's promise
\* resolves either way
LoadingAndOutcomeTracked ==
    IF Acted.phase = "pending"
    THEN ui.loading /\ Acted.promise = Pending
    ELSE /\ ~ui.loading
         /\ Acted.promise.settle = "resolved"
         /\ IF Failed(Acted.out)
            THEN ui.error = Awaited(Acted.out) /\ Acted.promise.v = Undef
            ELSE ui.result = Awaited(Acted.out) /\ Acted.promise.v = ui.result

\* C27: every trigger call sets loading to true at its start and to false
\* once the pipeline call settles; on success it stores the resolved result
\* and its promise resolves to it; on failure it stores the failure in error
\* and its promise resolves with no value instead of rejecting; the pipeline
\* is invoked with the override when one is given and with the bound input
\* otherwise.
C27_TriggerTracksThePipelineCall ==
    (ui.phase = "rendered" /\ ui.at > 0) =>
        /\ LoadingAndOutcomeTracked
        /\ \A k \in 1..Len(ui.calls) :
              /\ ui.calls[k].with = ChosenIfPassed(ui.calls[k].overwrite, ui.props)
              /\ ui.calls[k].out = Run(objects, ui.of, ui.calls[k].with)

\* what the providers of the last invocation are expected to be handed: the
\* caller's input, an empty record in place of undefined
CallerInput == IF last.x.t = "undef" THEN Obj(EmptyObj) ELSE last.x

RECURSIVE UnionOver(_, _)
\* the outputs of the providers ds on p, merged in list order
UnionOver(ds, p) ==
    IF ds = <<>> THEN EmptyObj
    ELSE Spread(UnionOver(SubSeq(ds, 1, Len(ds) - 1), p), ApplyProvider(ds[Len(ds)], p))

RECURSIVE UnionSoFar(_, _, _)
\* the outputs of the providers ds, each applied to p together with the
\* defaults acc produced before it
UnionSoFar(ds, p, acc) ==
    IF ds = <<>> THEN acc
    ELSE LET handed == IF p.t = "obj" THEN Obj(Spread(acc, p.o)) ELSE p
         IN  UnionSoFar(Tail(ds), p, Spread(acc, ApplyProvider(Head(ds), handed)))

\* the last invocation was of a callable with at least one default provider
InvokedDefaulted ==
    /\ last.phase # "none"
    /\ ArgsOf("defaults") # <<>>

\* C31 (as amended): during default resolution every provider is applied to
\* the caller input alone (an empty record when the input is undefined), never
\* to the defaults produced by the providers added before it: the resolved
\* defaults are the union, later over earlier, of each provider's output on
\* the caller input, so a later provider cannot read a key an earlier provider
\* supplied.
C31_ProvidersSeeCallerInputOnly ==
    InvokedDefaulted =>
        /\ ProvidersInput = CallerInput
        /\ Resolved = UnionOver(ArgsOf("defaults"), CallerInput)

\* C31 as stated: each provider is applied to the caller input together with
\* the defaults the providers before it produced.
C31_ProvidersSeePropsSoFar ==
    InvokedDefaulted =>
        Resolved = UnionSoFar(ArgsOf("defaults"), CallerInput, EmptyObj)

\* {b: 2} first, p => ({a: p.b}) second, invoked with {}: the second provider
\* found no b, a is undefined and the sum is not a number
C31_Witness ==
    /\ last.phase = "done"
    /\ derivation[last.c] = <<Step("defaults", "b2"), Step("defaults", "aFromB")>>
    /\ last.x = Obj(EmptyObj)
    /\ Resolved = MkObj([b |-> Num(2), a |-> Undef])
    /\ last.v = NaN

\* the fields of a pipeline state
StateFields == DOMAIN initialState(CHOOSE o \in FactoryArgs : TRUE)

\* the part of the state each chain method is said to change
OwnPart(op) ==
    CASE op = "implement" -> {"implementation"}
      [] op = "input" -> {"inputMappers"}
      [] op = "output" -> {"outputMappers"}
      [] op = "before" -> {"beforeHooks"}
      [] op = "after" -> {"afterHooks"}
      [] op = "defaults" -> {"defaultProviders"}
      [] op = "enforce" -> {"enforcedValues"}
      [] op = "toAsync" -> {"isAsync"}
      [] op = "toVoid" -> {"isVoid"}
      [] op = "zProps" -> {"propsSchema", "validateProps"}
      [] op = "zResult" -> {"resultSchema", "validateResults"}

\* list is base with the one element e put in, ahead of or behind the others
OneMore(list, base, e) ==
    /\ Len(list) = Len(base) + 1
    /\ list = <<e>> \o base \/ list = base \o <<e>>

\* what the chain method op, called with arg, made of its own part: n is the
\* state derived, r the receiver's
OwnChange(op, arg, n, r) ==
    CASE op = "implement" -> n.implementation = CoreFn(arg)
      [] op = "input" -> OneMore(n.inputMappers, r.inputMappers, arg)
      [] op = "output" -> OneMore(n.outputMappers, r.outputMappers, arg)
      [] op = "before" -> OneMore(n.beforeHooks, r.beforeHooks, arg)
      [] op = "after" -> OneMore(n.afterHooks, r.afterHooks, arg)
      [] op = "defaults" -> OneMore(n.defaultProviders, r.defaultProviders, arg)
      [] op = "enforce" ->
            \A k \in Keys :
                IF k \in DOMAIN EnforcedOf(arg)
                THEN k \in DOMAIN n.enforcedValues /\ n.enforcedValues[k] = EnforcedOf(arg)[k]
                ELSE IF k \in DOMAIN r.enforcedValues
                THEN k \in DOMAIN n.enforcedValues /\ n.enforcedValues[k] = r.enforcedValues[k]
                ELSE k \notin DOMAIN n.enforcedValues
      [] op = "toAsync" -> n.isAsync
      [] op = "toVoid" -> n.isVoid
      [] op = "zProps" -> n.propsSchema = Some(arg) /\ n.validateProps
      [] op = "zResult" -> n.resultSchema = Some(arg) /\ n.validateResults

\* the methods the frame is claimed for
FramedMethods == DerivingMethods \ {"pipe"}

\* the last invocation was of a callable implement derived from a template
\* that enforces b: 100 and leaves a to the caller, through no input mapper
\* or validator, with {a: 5, b: 10}
TemplateImplemented ==
    /\ Completed
    /\ derivation[last.c] # <<>>
    /\ derivation[last.c][Len(derivation[last.c])] = Step("implement", "sum")
    /\ ArgsOf("input") = <<>>
    /\ ~callables[last.c].validateProps
    /\ ArgsOf("enforce") # <<>>
    /\ ArgsOf("enforce")[Len(ArgsOf("enforce"))] = "b100"
    /\ "a" \notin DOMAIN callables[last.c].enforcedValues
    /\ last.x = Obj(MkObj([a |-> Num(5), b |-> Num(10)]))

\* C32: each state-deriving chain method changes exactly its own part of the
\* state and leaves every other field, key and description included, equal to
\* the receiver's: implement the core logic; input, output, before, after and
\* defaults their own list, by the one element passed; enforce the enforced
\* values; toAsync and toVoid their flag; zProps and zResult their validator
\* and flag. implement on a configured template keeps the configuration in
\* force: the template's enforced b: 100 reaches the new core logic.
C32_ChainMethodChangesItsOwnPartOnly ==
    /\ lastOp.op \in FramedMethods =>
          LET n == callables[lastOp.ret]
              r == callables[lastOp.recv]
              arg == derivation[lastOp.ret][Len(derivation[lastOp.ret])].arg
          IN  /\ \A f \in StateFields \ OwnPart(lastOp.op) : n[f] = r[f]
              /\ OwnChange(lastOp.op, arg, n, r)
    /\ TemplateImplemented =>
          /\ CoreInput["b"] = Num(100)
          /\ CoreInput["a"] = Num(5)
          /\ callables[last.c].outputMappers = <<>> /\ ~callables[last.c].isVoid
                => FinalValue = Num(105)

\* implement called on a template with key and description, configured with
\* enforce: the callable returned has the template's key, description and
\* enforced values, and the new core logic
C32_Witness ==
    /\ lastOp.op = "implement"
    /\ lastOp.recv = 2
    /\ lastOp.ret = 3
    /\ derivation[2] = <<Step("enforce", "b100")>>
    /\ callables[1].implementation = NoImplementation
    /\ callables[3].key = Some("k")
    /\ callables[3].enforcedValues = MkObj([b |-> Num(100)])
    /\ callables[3].implementation = CoreFn("sum")

\* the last invocation was of a callable from returned, with a record
FromInvoked ==
    /\ last.phase # "none"
    /\ last.c \in FromMade
    /\ last.x \in Records

\* what from was called with for the callable last invoked
FromFn == derivation[last.c][1].arg[1]

FromKeys == derivation[last.c][1].arg[2]

\* r[k1], ..., r[kn]: undefined where r has no such key
Positional(keys, r) ==
    [j \in 1..Len(keys) |-> IF keys[j] \in DOMAIN r THEN r[keys[j]] ELSE Undef]

\* C33: invoking the blueprint from(fn, [k1..kn]) returned with a record r
\* returns fn(r[k1], ..., r[kn]): the arguments are passed in the order of the
\* keys array, as many as there are keys, undefined for a key r does not have,
\* and a key of r that is not listed is passed nowhere.
C33_FromPassesKeysPositionally ==
    FromInvoked =>
        LET args == Positional(FromKeys, last.x.o)
        IN  /\ last.kind = "return"
            /\ last.v = ApplyFn(FromFn, args)
            /\ FromFn = "count" => last.v = Num(Len(FromKeys))
            /\ FromFn = "second" =>
                  last.v = (IF Len(FromKeys) >= 2 /\ FromKeys[2] \in DOMAIN last.x.o
                            THEN last.x.o[FromKeys[2]] ELSE Undef)

\* from((x, y) => y, ['c', 'a']) invoked with {a: 5, b: 10}: c is missing and
\* passed as undefined, a is the second argument, b is ignored
C33_Witness ==
    /\ FromInvoked
    /\ FromFn = "second"
    /\ FromKeys = <<"c", "a">>
    /\ last.x = Obj(MkObj([a |-> Num(5), b |-> Num(10)]))
    /\ last.v = Num(5)

\* callable j was reached from callable i by chain methods: in a fluent chain,
\* it was constructed after it
ReachedFrom(i, j) == i <= j

MapperFails == \E j \in 1..Len(ArgsOf("input")) : ArgsOf("input")[j] \in FailingInputTransforms

\* a before hook of the callable last invoked throws
HookFails == \E j \in 1..Len(ArgsOf("before")) : ArgsOf("before")[j] = "failB"

\* C35: on a pipeline with no core logic an invocation still resolves and
\* applies the defaults, enforces, maps and validates the input and runs the
\* before hooks, and only then fails as unimplemented: the before hooks ran on
\* the validated input, and the failure of an input mapper, of the input
\* validator or of a before hook is what the invocation fails with when there
\* is one, the earliest stage first.
C35_UnimplementedFailsAfterTheInputStages ==
    InvokedUnimplemented =>
        /\ last.kind = "throw"
        /\ Ran({"defaults"}) = 1 /\ Ran({"merge"}) = 1 /\ Ran({"enforce"}) = 1
        /\ \A k \in DOMAIN callables[last.c].enforcedValues :
              OwnEvents("enforce")[1].out.o[k] = callables[last.c].enforcedValues[k]
        /\ Ran({"core", "async", "outputMap", "validateResult", "after", "void"}) = 0
        /\ IF MapperFails
           THEN /\ last.v = MapBoom
                /\ Ran({"validateProps", "before"}) = 0
           ELSE /\ Ran({"inputMap"}) = Len(ArgsOf("input"))
                /\ Ran({"validateProps"}) = (IF callables[last.c].validateProps THEN 1 ELSE 0)
                /\ IF PropsRejected # <<>>
                   THEN /\ last.v = PropsRejected[1].out
                        /\ Ran({"before"}) = 0
                   ELSE LET ran == OwnEvents("before")
                        IN  /\ [j \in 1..Len(ran) |-> ran[j].f]
                                  = UpToFirst(ArgsOf("before"), "failB")
                            /\ \A j \in 1..Len(ran) : ran[j].arg = ValidatedInput
                            /\ last.v = (IF HookFails THEN HookBoom
                                         ELSE Err("Error",
                                                  UnimplementedMessage(callables[last.c].key)))

\* a mapper and a logging before hook on a pipeline without core logic,
\* invoked with {a: 5}: the hook ran on {a: 6}, then the invocation failed as
\* unimplemented
C35_Witness ==
    /\ InvokedUnimplemented
    /\ derivation[last.c] = <<Step("input", "incA"), Step("before", "logB")>>
    /\ last.x = Obj(MkObj([a |-> Num(5)]))
    /\ Len(OwnEvents("before")) = 1
    /\ OwnEvents("before")[1].arg = Obj(MkObj([a |-> Num(6)]))
    /\ last.v.msg \in {"Blueprint has not been implemented.",
                       "Blueprint 'k' has not been implemented."}

\* the last invocation was of an async callable
AsyncInvoked ==
    /\ last.phase # "none"
    /\ callables[last.c].isAsync

\* e is one of the elements of list
Among(e, list) == \E j \in 1..Len(list) : list[j] = e

\* a stage up to and including core logic fails in the last invocation: a
\* default provider, an input mapper, input validation, a before hook, core
\* logic that is missing or throws
EarlyFailure ==
    LET st == callables[last.c]
    IN  \/ Among("failD", st.defaultProviders)
        \/ Among("failI", st.inputMappers)
        \/ PropsRejected # <<>>
        \/ Among("failB", st.beforeHooks)
        \/ st.implementation = NoImplementation
        \/ st.implementation = CoreFn("fail")

\* the deferred core result rejects, or a stage behind core logic fails: an
\* output mapper, result validation, an after hook
LateFailure ==
    LET st == callables[last.c]
    IN  \/ st.implementation = CoreFn("failAsync")
        \/ Among("failO", st.outputMappers)
        \/ \E j \in 1..Len(last.v.post) :
              last.v.post[j].s = "validateResult" /\ last.v.post[j].out.t = "error"
        \/ Among("failA", st.afterHooks)

\* C36: when isAsync is set, a failure in any stage up to and including core
\* logic is thrown out of the call, not delivered as a rejected deferred
\* value; when no such stage fails the call returns a deferred value, which
\* rejects exactly when the core's deferred result rejects or an output
\* mapper, result validation or an after hook fails.
C36_AsyncFailsSynchronouslyUpToCore ==
    AsyncInvoked =>
        IF EarlyFailure
        THEN /\ last.kind = "throw"
             /\ last.phase = "done"
             /\ last.v.t = "error"
        ELSE /\ last.kind = "return"
             /\ IsPromise(last.v)
             /\ last.v.settle = "rejected" <=> LateFailure

\* an async callable whose core logic throws, invoked: the failure was thrown,
\* no deferred value returned
C36_Witness ==
    /\ AsyncInvoked
    /\ callables[last.c].implementation = CoreFn("fail")
    /\ \A e \in {"failD", "failI", "failB"} :
          ~Among(e, callables[last.c].defaultProviders \o callables[last.c].inputMappers
                      \o callables[last.c].beforeHooks)
    /\ PropsRejected = <<>>
    /\ last.kind = "throw"
    /\ last.v = Boom

\* the record enforcement produced in the last invocation
Enforced == OwnEvents("enforce")[1].out.o

\* what the input mappers of the callable last invoked make of the enforced
\* record
MappedInput == ComposeInputs(ArgsOf("input"), Enforced)

ModBuilt == {"enforce", "defaults", "returning", "async", "void", "request", "hook"}

\* the fields the bundles in list contribute
ContributedBy(list) == UNION {DOMAIN CoreOf(list[j]) : j \in 1..Len(list)}

SettlesNow(k) ==
    /\ k \in 1..Len(ui.calls)
    /\ ui.calls[k].phase = "pending"
    /\ ui'.calls[k].phase = "settled"

\* the pipeline call of trigger call k threw or rejected
TriggerFailed(k) ==
    \/ ui.calls[k].out.kind = "throw"
    \/ /\ IsPromise(ui.calls[k].out.v)
       /\ ui.calls[k].out.v.settle = "rejected"

\* one step of a rendered hook: a settling failure writes error and leaves
\* result, a settling success writes result and leaves error, and any other
\* step leaves both
ErrorAndResultKept ==
    (ui.phase = "rendered" /\ ui'.phase = "rendered") =>
        /\ \A k \in 1..Len(ui.calls) :
              SettlesNow(k) =>
                  IF TriggerFailed(k)
                  THEN ui'.error = Awaited(ui.calls[k].out) /\ ui'.result = ui.result
                  ELSE ui'.result = Awaited(ui.calls[k].out) /\ ui'.error = ui.error
        /\ (\A k \in 1..Len(ui.calls) : ~SettlesNow(k)) =>
              ui'.error = ui.error /\ ui'.result = ui.result

\* C39: in the UI-hook adapter error is assigned only when a pipeline call
\* fails and result only when one succeeds, and neither is ever reset: a
\* trigger that starts leaves both, a success that settles after a failure
\* leaves error holding the earlier failure, and a failure that settles
\* after a success leaves result holding the earlier value.
C39_ErrorAndResultAreNeverReset == [][ErrorAndResultKept]_vars

\* a failed trigger, then a successful one, both settled, the success last:
\* error still holds the failure and result holds the later value
C39_Witness ==
    /\ ui.phase = "rendered"
    /\ Len(ui.calls) = 2
    /\ ui.at = 2
    /\ ui.calls[1].phase = "settled" /\ ui.calls[2].phase = "settled"
    /\ Failed(ui.calls[1].out) /\ ~Failed(ui.calls[2].out)
    /\ ~ui.loading
    /\ ui.error = Awaited(ui.calls[1].out)
    /\ ui.error # Null
    /\ ui.result = Awaited(ui.calls[2].out)

\* a successful trigger, then a failed one, both settled, the failure last:
\* result still holds the earlier value beside the error
ResultKeptAfterFailure ==
    /\ ui.phase = "rendered"
    /\ Len(ui.calls) = 2
    /\ ui.at = 2
    /\ ui.calls[1].phase = "settled" /\ ui.calls[2].phase = "settled"
    /\ ~Failed(ui.calls[1].out) /\ Failed(ui.calls[2].out)
    /\ ui.result = Awaited(ui.calls[1].out)
    /\ ui.result # Undef
    /\ ui.error = Awaited(ui.calls[2].out)

====
